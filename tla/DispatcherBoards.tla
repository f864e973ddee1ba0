-------------------------- MODULE DispatcherBoards --------------------------
(***************************************************************************)
(* What staff change together: the standards, one JSON value saved by      *)
(* compare-and-swap (services/dispatcherStandards.service.ts); a pinboard  *)
(* note, changed by version (controllers/                                  *)
(* dispatcherPinboard.controller.ts); and a customer's help request        *)
(* (routes/deliveryCheckIn.routes.ts).  A browser shows what it read some  *)
(* time ago, a save reads the board again and writes it in a second        *)
(* statement, and a request whose answer was lost is sent again.           *)
(***************************************************************************)
EXTENDS Integers, Sequences, FiniteSets

CONSTANTS
    Staff,
    Entries,        \* entries the standards may get
    Limit,          \* entries the standards may hold: 100
    MaxVersion      \* bound: versions explored

BoardsAssumption == Limit \in Nat /\ MaxVersion \in Nat

VARIABLES
    board,      \* the standards: a version and the entries there are
    edit,       \* each administrator's edit: the version shown, what the save read
    saves,      \* the versions the saves that took effect were shown, oldest first
    note,       \* the pinboard note
    shown,      \* the version of the note each browser shows
    toggles,    \* the versions the changes of the note were based on, oldest first
    help,       \* the customer's help request
    handled     \* who closed it, in order

vars == <<board, edit, saves, note, shown, toggles, help, handled>>

Versions == 0 .. MaxVersion
Board == [version : Versions, entries : SUBSET Entries]
Edit == [pc : {"closed", "open", "saving"}, version : Versions, id : Entries, read : Board]

BoardsTypeOK ==
    /\ board \in Board
    /\ edit \in [Staff -> Edit]
    /\ saves \in Seq(Versions)
    /\ note \in [status : {"ACTIVE", "RESOLVED"}, version : Versions]
    /\ shown \in [Staff -> Versions]
    /\ toggles \in Seq(Versions)
    /\ help \in {"NONE", "OPEN", "HANDLED"}
    /\ handled \in Seq(Staff)

Blank == [version |-> 0, entries |-> {}]

Init ==
    /\ board = Blank
    /\ edit = [p \in Staff |-> [pc |-> "closed", version |-> 0, read |-> Blank,
                                id |-> CHOOSE e \in Entries : TRUE]]
    /\ saves = <<>>
    /\ note = [status |-> "ACTIVE", version |-> 0]
    /\ shown = [p \in Staff |-> 0]
    /\ toggles = <<>>
    /\ help = "NONE"
    /\ handled = <<>>

standards == <<board, edit, saves>>
pinboard == <<note, shown, toggles>>
checkIn == <<help, handled>>

-----------------------------------------------------------------------------
\* The administrator opens an entry, new or old, of the board as it is now.
OpenEntry(p, e) ==
    /\ edit[p].pc = "closed"
    /\ edit' = [edit EXCEPT ![p] = [pc |-> "open", version |-> board.version, id |-> e,
                                    read |-> Blank]]
    /\ UNCHANGED <<board, saves, pinboard, checkIn>>

\* saveStandard() reads the board again and compares its version with the one
\* shown; a full list takes no new entry.
readStandards(p) ==
    /\ edit[p].pc = "open"
    /\ LET accepted == /\ board.version = edit[p].version
                       /\ edit[p].id \in board.entries \/ Cardinality(board.entries) < Limit IN
          edit' = [edit EXCEPT ![p].pc = IF accepted THEN "saving" ELSE "closed",
                               ![p].read = board]
    /\ UNCHANGED <<board, saves, pinboard, checkIn>>

Saved(p) ==
    /\ board' = [version |-> edit[p].read.version + 1,
                 entries |-> edit[p].read.entries \union {edit[p].id}]
    /\ saves' = Append(saves, edit[p].version)

\* The answer may be lost, and the same edit is sent again.
Answered(p) == \E pc \in {"closed", "open"} : edit' = [edit EXCEPT ![p].pc = pc]

\* Mutant: the value is written over whatever is stored.
saveStandard_Blind(p) ==
    /\ edit[p].pc = "saving"
    /\ edit[p].read.version < MaxVersion
    /\ Answered(p)
    /\ Saved(p)
    /\ UNCHANGED <<pinboard, checkIn>>

\* The new value is written only over the one that was read (a first save
\* creates the row, which fails when another one did).
saveStandard(p) ==
    /\ edit[p].pc = "saving"
    /\ edit[p].read.version < MaxVersion
    /\ Answered(p)
    /\ IF board = edit[p].read THEN Saved(p) ELSE UNCHANGED <<board, saves>>
    /\ UNCHANGED <<pinboard, checkIn>>

-----------------------------------------------------------------------------
Refresh(p) ==
    /\ shown' = [shown EXCEPT ![p] = note.version]
    /\ UNCHANGED <<note, toggles, standards, checkIn>>

Other(status) == IF status = "ACTIVE" THEN "RESOLVED" ELSE "ACTIVE"

\* The change takes effect on the version this browser shows, and only when it
\* is one; the answer carries the note as it is, or is lost.
Toggled(p) ==
    /\ note.version < MaxVersion
    /\ note' = [status |-> Other(note.status), version |-> note.version + 1]
    /\ toggles' = Append(toggles, shown[p])
    /\ \/ shown' = [shown EXCEPT ![p] = note.version + 1]
       \/ UNCHANGED shown

\* Mutant: the version the browser shows is not compared.
setPinboardNoteStatus_Unversioned(p, status) ==
    /\ note.status = Other(status)
    /\ Toggled(p)
    /\ UNCHANGED <<standards, checkIn>>

setPinboardNoteStatus(p, status) ==
    /\ note.version = shown[p]
    /\ note.status = Other(status)
    /\ Toggled(p)
    /\ UNCHANGED <<standards, checkIn>>

\* One request per order: asking again changes nothing.
requestHelp ==
    /\ help = "NONE"
    /\ help' = "OPEN"
    /\ UNCHANGED <<handled, standards, pinboard>>

\* Mutant: a repeated request closes the help request again.
markHandled_Again(p) ==
    /\ help # "NONE"
    /\ Len(handled) < 2
    /\ help' = "HANDLED"
    /\ handled' = Append(handled, p)
    /\ UNCHANGED <<standards, pinboard>>

\* The first handler wins.
markHandled(p) ==
    /\ help = "OPEN"
    /\ help' = "HANDLED"
    /\ handled' = Append(handled, p)
    /\ UNCHANGED <<standards, pinboard>>

Next ==
    \/ \E p \in Staff :
          \/ \E e \in Entries : OpenEntry(p, e)
          \/ readStandards(p) \/ saveStandard(p)
          \/ Refresh(p) \/ markHandled(p)
          \/ \E status \in {"ACTIVE", "RESOLVED"} : setPinboardNoteStatus(p, status)
    \/ requestHelp

Spec == Init /\ [][Next]_vars

-----------------------------------------------------------------------------
\* Nobody overwrites what they were not shown: every save of the standards and
\* every change of a note was based on the one just before it, whatever raced
\* or was sent twice, and a help request is closed once
\* (dispatcherStandards.service.ts:65-87, dispatcherPinboard.controller.ts:76-86,
\* deliveryCheckIn.routes.ts:84-93).
NoBlindOverwrite ==
    /\ \A i \in DOMAIN saves : saves[i] = i - 1
    /\ \A i \in DOMAIN toggles : toggles[i] = i - 1
    /\ Len(handled) <= 1
=============================================================================
