------------------------------ MODULE Directory ------------------------------
(***************************************************************************)
(* An owner's presentations: the dashboard that lists them, with its       *)
(* renames, duplicates and deletions under way, and the transactions of    *)
(* the store that delete one or its results while a presenter opens it.    *)
(*                                                                         *)
(* A title is its version, the number of "- version n"; all presentations  *)
(* have the same base name.  A session is created, and its presentation or *)
(* results deleted, under the advisory lock 'live-session' of the two.     *)
(***************************************************************************)
EXTENDS Integers, FiniteSets

CONSTANTS
  Decks,     \* presentation ids
  MaxTitle,  \* bound: versions in titles
  MaxOps     \* bound: operations of the dashboard and transactions

ASSUME DirectoryAssumption == {MaxTitle, MaxOps} \subseteq Nat

VARIABLES
  decks,      \* the presentations table: title and revision, 0 when there is no row
  runs,       \* the session of each: "none", "active", "ended"
  locks,      \* transactions holding the lock: what each does, and what it saw
  list,       \* the dashboard's list, as last loaded
  renaming,   \* renamingQuiz, newQuizName and activeRenameIdRef
  pending,    \* renames and duplicates under way
  left        \* what the bound has left

directoryVars == <<decks, runs, locks, list, renaming, pending, left>>

NoDeck == [title |-> 0, revision |-> 0]
NoRename == [row |-> "none", text |-> 0, active |-> "none"]
Rows(table) == {d \in Decks : table[d] # NoDeck}

DirectoryInit ==
  /\ \E d \in Decks : decks = [x \in Decks |-> IF x = d THEN NoDeck ELSE [title |-> 1, revision |-> 1]]
  /\ runs = [d \in Decks |-> "none"] /\ locks = {}
  /\ list = decks /\ renaming = NoRename /\ pending = {}
  /\ left = MaxOps

Spend == left > 0 /\ left' = left - 1
-----------------------------------------------------------------------------
(* Store: CreateSession, Delete and DeleteResults.                         *)

Bug_NoLock(d) == TRUE
LockFree(d) == \A t \in locks : t.deck # d

\* The lock, and the look for an active session under it.
BeginDeckWork(kind, d) ==
  /\ decks[d] # NoDeck /\ LockFree(d) /\ \A t \in locks : t # [kind |-> kind, deck |-> d, saw |-> runs[d]]
  /\ locks' = locks \union {[kind |-> kind, deck |-> d, saw |-> runs[d]]}
  /\ Spend
  /\ UNCHANGED <<decks, runs, list, renaming, pending>>

FinishDeckWork(t) ==
  /\ locks' = locks \ {t}
  /\ runs' = IF t.saw = "active" \/ decks[t.deck] = NoDeck THEN runs
             ELSE [runs EXCEPT ![t.deck] = IF t.kind = "create" THEN "active" ELSE "none"]
  /\ decks' = IF t.kind = "delete" /\ t.saw # "active" THEN [decks EXCEPT ![t.deck] = NoDeck] ELSE decks
  /\ UNCHANGED <<list, renaming, pending, left>>

EndRun(d) ==
  /\ runs[d] = "active" /\ runs' = [runs EXCEPT ![d] = "ended"]
  /\ UNCHANGED <<decks, locks, list, renaming, pending, left>>

\* In the editor, or on another device.
RenamedElsewhere(d) ==
  /\ decks[d] # NoDeck /\ decks[d].revision < 3 /\ Spend
  /\ decks' = [decks EXCEPT ![d].revision = @ + 1]
  /\ UNCHANGED <<runs, locks, list, renaming, pending>>
-----------------------------------------------------------------------------
(* Dashboard.                                                              *)

ReloadList ==
  /\ list # decks /\ list' = decks
  /\ UNCHANGED <<decks, runs, locks, renaming, pending, left>>

StartRenaming(d) ==
  /\ d \in Rows(list) /\ renaming.row # d
  /\ renaming' = [row |-> d, text |-> list[d].title, active |-> d]
  /\ UNCHANGED <<decks, runs, locks, list, pending, left>>

TypeName(n) ==
  /\ renaming.row # "none" /\ renaming' = [renaming EXCEPT !.text = n]
  /\ UNCHANGED <<decks, runs, locks, list, pending, left>>

CancelRenaming ==
  /\ renaming.row # "none" /\ renaming' = NoRename
  /\ UNCHANGED <<decks, runs, locks, list, pending, left>>

\* commitRenaming, up to the request; an unchanged name only closes the field.
CommitRenaming ==
  /\ renaming.row \in Rows(list)
  /\ IF renaming.text = list[renaming.row].title
     THEN renaming' = NoRename /\ UNCHANGED <<pending, left>>
     ELSE /\ Spend /\ UNCHANGED renaming
          /\ pending' = pending \union {[kind |-> "rename", deck |-> renaming.row, text |-> renaming.text,
                                         revision |-> list[renaming.row].revision]}
  /\ UNCHANGED <<decks, runs, locks, list>>

\* The duplicate takes the title after the last of the list.
LastTitle == CHOOSE n \in 0..MaxTitle : (\A d \in Rows(list) : list[d].title <= n)
                                        /\ (n = 0 \/ \E d \in Rows(list) : list[d].title = n)
FamilyFree == \A o \in pending : o.kind # "duplicate"

DuplicateDeck(d) ==
  /\ d \in Rows(list) /\ FamilyFree /\ LastTitle < MaxTitle /\ Spend
  /\ pending' = pending \union {[kind |-> "duplicate", deck |-> d, text |-> LastTitle + 1, revision |-> left]}
  /\ UNCHANGED <<decks, runs, locks, list, renaming>>

\* After the reply the list is loaded again, which may fail.
Reloaded == list' \in {list, decks'}

\* What commitRenaming does after its awaits: only the row it was for.
Bug_ClosesAny(o, success) == NoRename
RowDone(o, success) ==
  IF renaming.active # o.deck THEN [renaming EXCEPT !.row = IF @ = o.deck THEN "none" ELSE @]
  ELSE [row |-> IF renaming.row = o.deck THEN "none" ELSE renaming.row, active |-> "none",
        text |-> IF success THEN renaming.text ELSE list[o.deck].title]

\* Update under If-Match, its reply and the reload; a lost reply reloads nothing.
RenameDone(o) ==
  /\ o.kind = "rename" /\ pending' = pending \ {o}
  /\ LET accepted == decks[o.deck] # NoDeck /\ decks[o.deck].revision = o.revision
         saved == [decks EXCEPT ![o.deck] = [title |-> o.text, revision |-> @.revision + 1]]
     IN \/ /\ decks' = IF accepted THEN saved ELSE decks
           /\ Reloaded /\ renaming' = RowDone(o, accepted)
        \/ /\ decks' \in {decks} \union (IF accepted THEN {saved} ELSE {})
           /\ renaming' = RowDone(o, FALSE) /\ UNCHANGED list
  /\ UNCHANGED <<runs, locks, left>>

DuplicateDone(o) ==
  /\ o.kind = "duplicate" /\ pending' = pending \ {o}
  /\ \/ \E d \in Decks \ Rows(decks) :
          /\ decks[o.deck] # NoDeck /\ runs[d] = "none"
          /\ decks' = [decks EXCEPT ![d] = [title |-> o.text, revision |-> 1]] /\ Reloaded
     \/ UNCHANGED <<decks, list>>
  /\ UNCHANGED <<runs, locks, renaming, left>>

DirectoryNext ==
  \/ \E kind \in {"create", "delete", "reset"}, d \in Decks : BeginDeckWork(kind, d)
  \/ \E t \in locks : FinishDeckWork(t)
  \/ \E d \in Decks : EndRun(d) \/ RenamedElsewhere(d) \/ StartRenaming(d) \/ DuplicateDeck(d)
  \/ ReloadList \/ CancelRenaming \/ CommitRenaming \/ \E n \in 1..MaxTitle : TypeName(n)
  \/ \E o \in pending : RenameDone(o) \/ DuplicateDone(o)

DirectorySpec == DirectoryInit /\ [][DirectoryNext]_directoryVars
-----------------------------------------------------------------------------
(* Properties.                                                             *)

\* A session a presenter has opened ends; it is never deleted under them, with
\* the presentation or its results, in whatever order the transactions run.
RunIsNeverLost == [][\A d \in Decks : runs[d] = "active" => runs'[d] # "none"]_directoryVars

\* The reply to the rename of one row, however late, leaves the name being
\* typed in another row as it is.
TypingIsKept ==
  [][\A o \in pending \ pending' :
       (renaming.row \notin {"none", o.deck}) => renaming' = renaming]_directoryVars
=============================================================================
