---------------------------- MODULE MCToolFlight ----------------------------
(* Three tool uses, two of one name.                                       *)
EXTENDS ToolFlight, TLC

CONSTANTS t1, t2, t3, Bash, Edit

MCTools == {t1, t2, t3}
MCNames == {Bash, Edit}
MCNameOf == t1 :> Bash @@ t2 :> Bash @@ t3 :> Edit
=============================================================================
