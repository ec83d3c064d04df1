---------------------------- MODULE MCOneProcess -----------------------------
(* Instances of Evaluator, Selection and JobReport for TLC: what one process *)
(* works out on its own.  A behaviour is of one of the three.                *)
EXTENDS Evaluator, Selection, JobReport, TLC

CONSTANT Routine    \* of "evaluate", "select" and "report"

VARIABLE routine

(* Selection: sibling directories of which some are no tasks or cannot be   *)
(* read, a registry with two versions of one dataset, and requests with     *)
(* every set of sources and a range of filters.                             *)
SingleStep == {"task.toml", "instruction.md", "tests/test.sh"}

Folder(place, name, files, multi, readable) ==
  [place |-> place, name |-> name, files |-> files, multi |-> multi, readable |-> readable]

NoFolder == Folder(0, << >>, {}, FALSE, TRUE)
FolderA == Folder(1, <<"a">>, SingleStep, FALSE, TRUE)
FolderAB == Folder(2, <<"a", "b">>, {"task.toml", "steps"}, TRUE, TRUE)
FolderBAB == Folder(3, <<"b", "a", "b">>, SingleStep, FALSE, TRUE)
Incomplete == {Folder(4, <<"b">>, {"task.toml", "instruction.md"}, FALSE, TRUE),
               Folder(5, <<"b">>, {"task.toml"}, TRUE, TRUE)}
Unreadable == Folder(6, <<"b">>, SingleStep, FALSE, FALSE)
UnreadableSteps == Folder(7, <<"b">>, {"task.toml", "steps"}, TRUE, FALSE)

Row(name, base, dir) == [name |-> name, base |-> base, dir |-> dir]
Registry(third) ==
  <<[name |-> <<"s">>, version |-> 1, tasks |-> <<Row(<<"o", "a">>, "x", FolderA)>>],
    [name |-> <<"s">>, version |-> 2,
     tasks |-> <<Row(<<"n">>, "a", FolderBAB), Row(<<"o", "b">>, "y", third)>>],
    [name |-> <<"h">>, version |-> HeadVersion, tasks |-> <<Row(<<"h">>, "z", FolderAB)>>]>>

MCWorld ==
  [root : {NoFolder, FolderA} \cup Incomplete, isDir : BOOLEAN,
   children : {{FolderA, FolderAB, FolderBAB, dir} : dir \in Incomplete}
              \cup {{FolderA, FolderBAB, dir} : dir \in {Unreadable, UnreadableSteps}}
              \cup {Incomplete},
   registry : {Registry(dir) : dir \in Incomplete \cup {FolderAB}}]

Pattern == {<<"*">>, <<"a", "*">>, <<"*", "b">>, <<"?">>, <<"*", "a", "?">>, <<"a", "*", "b", "*">>}

Filters(given) ==
  [given : {given}, limit : {NoLimit, 0, 1, 2}, include : {{}} \cup {{p} : p \in Pattern},
   exclude : {{}} \cup {{p} : p \in Pattern}, version : {NoVersion}, name : {<<"s">>}]

References ==
  [given : {{"task"}, {"dataset"}}, limit : {NoLimit}, include : {{}, {<<"a", "*">>}}, exclude : {{}},
   version : {NoVersion, 1, 3}, name : {<<"s">>, <<"h">>, <<"o", "a">>, <<"q">>}]

MCRequest ==
  Filters({"path"}) \cup References
  \cup [given : SUBSET {"path", "dataset", "task", "git", "commit"}, limit : {NoLimit}, include : {{}}, exclude : {{}},
        version : {NoVersion}, name : {<<"s">>}]

(* JobReport: one task with five attempts, and two tasks with three.  Full  *)
(* is 6 and a displayed number a multiple of 3, so that 2 stands for a      *)
(* reward that rounding changes.                                            *)
MCJob == {[tasks |-> <<"a">>, attempts |-> 5], [tasks |-> <<"a", "b">>, attempts |-> 3]}

MCScoring ==
  {"reward" :> score : score \in {0, 2, 6}}
  \cup {<< >>, "core" :> 6, "reward" :> 6 @@ "core" :> 0}

MCScoringWithNaN == {"reward" :> 6, "reward" :> NaN}

-----------------------------------------------------------------------------
(* What is not at work stays at one of its first states.                    *)
EvaluatorIdle == Init /\ ~config.stop /\ ~config.limit
SelectionIdle ==
  SelectionInit /\ asked = (CHOOSE r \in Request : TRUE) /\ world = (CHOOSE w \in World : TRUE)
ReportIdle == JobReportInit /\ job = (CHOOSE j \in Job : TRUE)

MCInit ==
  /\ routine \in Routine
  /\ \/ routine = "evaluate" /\ Init /\ SelectionIdle /\ ReportIdle
     \/ routine = "select" /\ EvaluatorIdle /\ SelectionInit /\ ReportIdle
     \/ routine = "report" /\ EvaluatorIdle /\ SelectionIdle /\ JobReportInit

MCNext ==
  /\ \/ routine = "evaluate" /\ Next /\ UNCHANGED <<selectionVars, jobReportVars>>
     \/ routine = "select" /\ SelectionNext /\ UNCHANGED <<vars, jobReportVars>>
     \/ routine = "report" /\ JobReportNext /\ UNCHANGED <<vars, selectionVars>>
  /\ UNCHANGED routine

MCSpec == MCInit /\ [][MCNext]_<<routine, vars, selectionVars, jobReportVars>>

=============================================================================
