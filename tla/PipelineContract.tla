-------------------------- MODULE PipelineContract --------------------------
(***************************************************************************)
(* What a caller of c2pancake may rely on, with no pass, retry or context: *)
(* the files of the command line are taken in order, the text of the       *)
(* current file only moves to later versions, a finished file keeps the    *)
(* last version as its output, and the exit status tells whether all of    *)
(* them finished.                                                          *)
(***************************************************************************)
EXTENDS Integers

CONSTANTS NFiles,      \* number of source files
          Original,    \* the text a file starts with
          NoFile,      \* no output yet
          Generated,   \* the output a stage generated itself
          Before(_, _) \* the order of the versions of a text

VARIABLES done, text, outputs, status

cvars == <<done, text, outputs, status>>

Init == /\ done = 0 /\ text = Original
        /\ outputs = [f \in 1..NFiles |-> NoFile]
        /\ status = -1

\* a pass rewrote the current file
Rewrite == /\ status = -1 /\ done < NFiles
           /\ Before(text, text')
           /\ UNCHANGED <<done, outputs, status>>

\* the current file is complete: nothing that was written for it is lost
Complete == /\ status = -1 /\ done < NFiles
            /\ done' = done + 1
            /\ \E out \in {text, Generated} :
                 outputs' = [outputs EXCEPT ![done + 1] = out]
            /\ text' = Original
            /\ UNCHANGED status

Succeed == status = -1 /\ done = NFiles /\ status' = 0
           /\ UNCHANGED <<done, text, outputs>>

\* the run gives up in the file after the last finished one
Fail    == status = -1 /\ done < NFiles /\ status' = 1
           /\ UNCHANGED <<done, text, outputs>>

Next == Rewrite \/ Complete \/ Succeed \/ Fail

\* a file takes finitely many versions, and the run reaches its verdict
Spec == Init /\ [][Next]_cvars /\ <>(status # -1)
=============================================================================
