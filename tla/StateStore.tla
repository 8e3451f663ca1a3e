----------------------------- MODULE StateStore -----------------------------
(***************************************************************************)
(* What the Terraform driver promises about terraform.tfstate.  An apply   *)
(* starts on a content that was copied, unless an apply nobody attends has *)
(* written since the copy was taken; and while the file is unreadable the  *)
(* content it had when it was last backed up can be restored, unless       *)
(* Retain later attempts have each pushed a copy of the unreadable file.   *)
(***************************************************************************)
EXTENDS Naturals

CONSTANTS Content,   \* what a state file can record
          Missing,   \* no file: nothing to copy
          Torn,      \* an unreadable file
          Retain     \* copies kept

VARIABLES content,   \* of the state file
          base,      \* content when it was last backed up
          copies,    \* what the kept copies record
          tries,     \* backups taken of an unreadable file since then
          open,      \* the apply under way, with its parent or without
          overrun    \* an apply without its parent has written since the backup

vars == <<content, base, copies, tries, open, overrun>>

Kept == base = Missing \/ base \in copies

Init ==
    /\ content \in Content /\ base = content
    /\ copies = {} /\ tries = 0
    /\ open = "none" /\ overrun = FALSE

\* A backup: the content is among the copies kept, which may lose older ones.
BackUp ==
    /\ open # "attended" /\ content # Torn
    /\ base' = content /\ tries' = 0 /\ overrun' = FALSE
    /\ IF content = Missing
       THEN copies' = copies
       ELSE copies' \in SUBSET (copies \cup {content}) /\ content \in copies'
    /\ UNCHANGED <<content, open>>

\* A backup of a file that cannot be read: the copies of it replace good ones.
BackUpTorn ==
    /\ content = Torn
    /\ tries' = IF tries < Retain THEN tries + 1 ELSE Retain
    /\ copies' \in SUBSET (copies \cup {Torn})
    /\ tries' < Retain /\ base \in copies => base \in copies'
    /\ UNCHANGED <<content, base, open, overrun>>

\* An apply starts: what it is about to overwrite is the content that was copied.
Begin ==
    /\ open = "none" /\ content # Torn
    /\ content = base \/ overrun
    /\ Kept
    /\ open' = "attended"
    /\ UNCHANGED <<content, base, copies, tries, overrun>>

\* The parent dies and leaves the apply to itself.
Orphan ==
    /\ open = "attended" /\ open' = "orphan"
    /\ UNCHANGED <<content, base, copies, tries, overrun>>

\* The apply writes, or is killed writing; what it found can be restored.
Write ==
    /\ open # "none" /\ content # Torn /\ Kept
    /\ content' \in Content \cup {Torn}
    /\ open' \in {open, "none"}
    /\ overrun' = (overrun \/ open = "orphan")
    /\ UNCHANGED <<base, copies, tries>>

End ==
    /\ open # "none" /\ open' = "none"
    /\ UNCHANGED <<content, base, copies, tries, overrun>>

\* The operator puts a readable copy back.
Restore ==
    /\ open = "none" /\ content = Torn
    /\ content' \in copies \ {Torn}
    /\ UNCHANGED <<base, copies, tries, open, overrun>>

\* The record of nothing is dropped, with all copies but one.
Forget ==
    /\ open # "attended" /\ content # Torn
    /\ copies' \in SUBSET copies
    /\ copies # {} => copies' # {}
    /\ content' \in Content /\ base' = content' /\ tries' = 0 /\ overrun' = FALSE
    /\ UNCHANGED open

Next == BackUp \/ BackUpTorn \/ Begin \/ Orphan \/ Write \/ End \/ Restore \/ Forget

Spec == Init /\ [][Next]_vars

=============================================================================
