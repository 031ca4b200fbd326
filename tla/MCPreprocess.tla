---------------------------- MODULE MCPreprocess ----------------------------
(***************************************************************************)
(* The robot's tasks with up to three of its operators.                    *)
(***************************************************************************)
EXTENDS Preprocess, RobotTasks

MCFiles ==
    {File(Chosen(numbers), goal) :
        numbers \in {s \in SUBSET DOMAIN RobotOperators : Cardinality(s) \in 1..3},
        goal \in {<<<<1, 1>>>>, <<<<3, 1>>>>, <<<<4, 1>>, <<1, 0>>>>}}

\* With an operator of which only a module's effect is left.
MCFilesWithModules == {File(<<Return, Look>>, <<<<1, 0>>>>), File(<<Look>>, <<<<4, 1>>>>)} \cup MCFiles
=============================================================================
