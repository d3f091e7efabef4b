------------------------------ MODULE MCProbe ------------------------------
(* Small instances of Probe for TLC. *)
EXTENDS Probe

CONSTANTS from, bcc, other,     \* classes of messages, and searches by header
          fake,                 \* a domain that only contains the configured one
          Kinds,                \* the classes in the mailbox
          Defects               \* the servers' defects

MCKind  == Kinds
MCQuery == {from, bcc}
MCTarget == [q \in MCQuery |-> IF q = from THEN "folder" ELSE "elsewhere"]
MCExact == [q \in MCQuery |-> {q} \cap MCKind]
MCHitBy == [q \in MCQuery |-> {q, fake} \cap MCKind]

\* The full policy, with and without a folder; a domain, searched in From and
\* in Bcc of the folder of sent mail.
MCAccount ==
    {[full |-> TRUE,  folder |-> FALSE, queries |-> {}],
     [full |-> TRUE,  folder |-> TRUE,  queries |-> {}],
     [full |-> FALSE, folder |-> TRUE,  queries |-> {from, bcc}]}

\* A proper server, one that ignores the search criterion and has no CONDSTORE,
\* and one that has neither CONDSTORE nor UID ranges and sets \Seen on PEEK.
Server(defect) ==
    [modseq    |-> defect = "none",
     ranges    |-> defect # "sloppy",
     overbroad |-> defect = "overbroad",
     marks     |-> defect = "sloppy"]

MCQuirks == {Server(d) : d \in Defects}
=============================================================================
