---------------------------- MODULE ArchiveEdits ----------------------------
(***************************************************************************)
(* An archive as its callers see it, and the three edits an update         *)
(* transaction can make to it (mpq-update.c, update_apply).  A body maps   *)
(* each member name to its data, or to Absent.  A container stores a body  *)
(* either as an ordinary MPQ or inside the encrypted MPQE transport.       *)
(***************************************************************************)
CONSTANTS Member, Value, Absent

ASSUME AbsentAssumption == Absent \notin Value

Body == [Member -> Value \cup {Absent}]

Form == {"mpq", "mpqe"}

Container == [form : Form, body : Body]

\* Replace and remove affect existing members only; rename also needs the new
\* name to be free.  A rejected edit leaves the working copy as it is.
Present(b) == {m \in Member : b[m] # Absent}

Replaced(b) == UNION {{[b EXCEPT ![m] = v] : v \in Value} : m \in Present(b)}

Removed(b) == {[b EXCEPT ![m] = Absent] : m \in Present(b)}

Renamed(b) ==
    UNION {{[b EXCEPT ![m] = Absent, ![n] = b[m]] : n \in Member \ Present(b)} :
               m \in Present(b)}

\* What a writer does: the first member of a name is the one that counts.
Added(b) == UNION {{[b EXCEPT ![m] = v] : v \in Value} : m \in Member \ Present(b)}

Edited(b) == Replaced(b) \cup Removed(b) \cup Renamed(b)
=============================================================================
