------------------------------ MODULE LogFile ------------------------------
(***************************************************************************)
(* What a FileHandle promises the log server: messages go to one file at a *)
(* time, each behind the last; at any time the system may have forced the  *)
(* file to the disk; a new file is begun on demand; and when the handle is *)
(* gone, the last file is on the disk as far as it was written.  A file    *)
(* may be one that the handle writes but neither forces nor closes.        *)
(***************************************************************************)
EXTENDS Integers

VARIABLES
  state,    \* "new", "open", "unforced", "none" (no file could be opened),
            \* "closed", or "left" (gone without closing an unforced file)
  length,   \* messages in the present file
  durable   \* those of them that are on the disk for certain

logFile == << state, length, durable >>

Init == state = "new" /\ length = 0 /\ durable = 0

\* A file is begun, or cannot be: at first, or in place of the present one.
Begin ==
  /\ state \notin { "closed", "left" }
  /\ state' \in { "open", "unforced", "none" } /\ length' = 0 /\ durable' = 0

Write ==
  /\ state \in { "open", "unforced" } /\ UNCHANGED state
  /\ length' = length + 1
  /\ durable' = durable \/ (state = "open" /\ durable' = length')

Sync == state = "open" /\ durable' = length /\ UNCHANGED << state, length >>

Close ==
  /\ state \in { "new", "open", "none" } /\ state' = "closed"
  /\ UNCHANGED length /\ durable' = length

Leave == state = "unforced" /\ state' = "left" /\ UNCHANGED << length, durable >>

Next == Begin \/ Write \/ Sync \/ Close \/ Leave

Spec == Init /\ [][Next]_logFile
=============================================================================
