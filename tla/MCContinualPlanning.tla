------------------------ MODULE MCContinualPlanning ------------------------
(***************************************************************************)
(* Small domains for ContinualPlanning, in the manner of the product       *)
(* domain of timed_initials_test.                                          *)
(***************************************************************************)
EXTENDS ContinualPlanning

\* 1 prepares, 2 delivers what was prepared (and uses it up), 3 delivers once
\* delivery has become possible.
MCPre == [n \in Name |-> CASE n = 1 -> {} [] n = 2 -> {"prepared"} [] n = 3 -> {"possible"}]
MCAdd == [n \in Name |-> CASE n = 1 -> {"prepared"} [] OTHER -> {"delivered"}]
MCDel == [n \in Name |-> CASE n = 2 -> {"prepared"} [] OTHER -> {}]

\* Every executor can execute everything; or 2 has two executors and 3 none.
MCCanExecuteAll == [e \in Executor |-> Name]
MCCanExecuteSome == [e \in Executor |-> IF e = 1 THEN {1, 2} ELSE {2}]

\* A direct request for action 2, at once or with a start time of its own.
MCDirectActions == [name : {2}, startTime : {0}]

=============================================================================
