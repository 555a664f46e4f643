---------------------------- MODULE Destination -----------------------------
(***************************************************************************)
(* What a pull promises whoever reads the destination path: it is absent   *)
(* or a whole file, it changes in one step, and a file a pull has reported *)
(* survives a crash of the machine.                                        *)
(***************************************************************************)
CONSTANTS Files,   \* the whole files
          Absent   \* there is nothing at the path

VARIABLES visible,    \* what the path holds
          survivors,  \* what a crash may leave there
          told        \* a pull has reported the file it published

destVars == <<visible, survivors, told>>

DestTypeOK == /\ visible \in Files \cup {Absent}
              /\ survivors \subseteq Files \cup {Absent}
              /\ visible \in survivors
              /\ told \in BOOLEAN

DestInit == /\ visible \in Files \cup {Absent}
            /\ survivors = {visible}
            /\ told = FALSE

Publish == /\ visible' \in Files
           /\ survivors' = survivors \cup {visible'}
           /\ told' = FALSE

\* The machine writes its directory back when it likes.
Settle == /\ survivors' = {visible}
          /\ UNCHANGED <<visible, told>>

TellDone == /\ visible # Absent
            /\ survivors' = {visible}
            /\ told' = TRUE
            /\ UNCHANGED visible

\* Another pull begins, and whatever it will report is still to come.
Ask == /\ told' = FALSE
       /\ UNCHANGED <<visible, survivors>>

Crash == /\ visible' \in survivors
         /\ survivors' = {visible'}
         /\ told' \in {FALSE, told}

DestNext == Publish \/ Settle \/ TellDone \/ Ask \/ Crash

DestSpec == DestInit /\ [][DestNext]_destVars

\* Once a file has been reported, no crash takes it away.
ReportedSurvives == told => survivors = {visible}
=============================================================================
