-------------------------- MODULE DurativeActions --------------------------
(***************************************************************************)
(* What an execution of durative actions is: an action may start when its  *)
(* conditions hold, runs for its duration while its over-all conditions    *)
(* hold, and has its end effects when it ends.  (Nothing is said about its *)
(* at-end conditions and the effects of modules.)                          *)
(***************************************************************************)
EXTENDS TemporalTask

VARIABLES
    now,      \* the time
    value,    \* the values of the variables
    running   \* the running actions, with the effects that are to come

actionVars == <<now, value, running>>

ActionsTypeOK ==
    /\ now \in Nat
    /\ value \in [Var -> Val]
    /\ running \subseteq [op : Op, end : Nat, fires : SUBSET Effect]

OverAllHolds(R, v) == \A r \in R : Holds(PrevailOverall[r.op], v)

WrittenByModules == {e.var : e \in UNION {ModuleEffectEnd[o] : o \in Op}}

ActionsInit ==
    /\ now = 0
    /\ value = Evaluate(InitialValue)
    /\ running = {}

Begin(o) ==
    /\ \A r \in running : r.op # o
    /\ Startable(o, value)
    /\ value' = Evaluate(StartOutcome(EffectStart[o], value))
    /\ running' = running \cup
          {[op |-> o, end |-> now + Duration[o],
            fires |-> {e \in EffectEnd[o] : Holds(e.start, value)}]}
    /\ OverAllHolds(running', value')
    /\ UNCHANGED now

\* The effects on x of the actions R that end.
EndEffects(R, x) == {e \in UNION {r.fires : r \in R} : e.var = x}

\* The new value of x is explained by the effects due: by one of them, or by
\* none of them firing.
Explained(x, due, old, new) ==
    \/ \E e \in due : new = e.post
    \/ new = old /\ \A e \in due : e.end # {}

\* The next of the running actions end, and time has come to that point.
Finish ==
    LET next == Least({r.end : r \in running})
        ended == {r \in running : r.end = next}
    IN  /\ running # {}
        /\ now' = next
        /\ value' \in [Var -> Val]
        /\ value' = Evaluate(value')
        /\ \A x \in Var \ (Derived \cup WrittenByModules) :
              Explained(x, EndEffects(ended, x), value[x], value'[x])
        /\ running' = {[r EXCEPT !.fires = {e \in @ : Holds(e.overall, value')}] :
                        r \in running \ ended}
        /\ OverAllHolds(running', value')

ActionsNext == Finish \/ \E o \in Op : Begin(o)

ActionsSpec == ActionsInit /\ [][ActionsNext]_actionVars
=============================================================================
