------------------------------ MODULE Fragments ------------------------------
(***************************************************************************)
(* The fragments of a text buffer and what edits and undos do to them      *)
(* (crates/text/src/text.rs, crates/text/src/undo_map.rs).                 *)
(*                                                                         *)
(* A buffer keeps every character that was ever inserted, deleted or not,  *)
(* in one order.  Here a fragment is one character: the code keeps runs of *)
(* characters and splits a run where an edit ends inside it, so that each  *)
(* of its decisions is made on a run it treats uniformly.  A character is  *)
(* named by the edit that inserted it and its offset in what was inserted. *)
(*                                                                         *)
(* An edit replaces one range by new text.  A local one has its range in   *)
(* visible characters; the operation that is sent to the other replicas    *)
(* has it in characters of any kind (FullOffset), as of its version.       *)
(***************************************************************************)
EXTENDS Versions, Sequences, FiniteSetsExt

Fragment(t, offset) ==
    [timestamp |-> t, offset |-> offset, visible |-> TRUE, deletions |-> {}]

Insertion(t, length) == [i \in 1..length |-> Fragment(t, i)]

-----------------------------------------------------------------------------
(* The undo map: how often each edit had been undone or redone, by the      *)
(* account of each undo operation.  The greatest count is the true one, and *)
(* an edit is undone when it is odd.                                        *)

GreatestCount(entries) == Max({0} \cup {u.count : u \in entries})

UndoCount(undos, edit) == GreatestCount({u \in undos : u.edit = edit})

IsUndone(undos, edit) == UndoCount(undos, edit) % 2 = 1

WasUndone(undos, edit, version) ==
    GreatestCount({u \in undos : u.edit = edit /\ Observed(version, u.undo)}) % 2 = 1

WithUndo(undos, undo) ==
    undos \cup {[edit |-> e, undo |-> undo.timestamp, count |-> undo.counts[e]] :
                   e \in DOMAIN undo.counts}

IsVisible(f, undos) ==
    /\ ~IsUndone(undos, f.timestamp)
    /\ \A d \in f.deletions : IsUndone(undos, d)

(* Mutant: visible now rather than visible to the author of the edit.       *)
WasVisibleByNow(f, version, undos) ==
    Observed(version, f.timestamp) /\ IsVisible(f, undos)

WasVisible(f, version, undos) ==
    /\ Observed(version, f.timestamp)
    /\ ~WasUndone(undos, f.timestamp, version)
    /\ \A d \in f.deletions : Observed(version, d) => WasUndone(undos, d, version)

-----------------------------------------------------------------------------
(* The visible characters, and all the characters a version has observed,   *)
(* among the first n.                                                       *)
VisibleOffset(frags, n) == Cardinality({i \in 1..n : frags[i].visible})

FullOffset(frags, version, n) ==
    Cardinality({i \in 1..n : Observed(version, frags[i].timestamp)})

VisibleLength(frags) == VisibleOffset(frags, Len(frags))

(* The text at place replaced: the insertion first, then the fragments that *)
(* followed, those at the indices in gone marked as deleted by the edit.    *)
Splice(frags, place, t, length, gone) ==
    SubSeq(frags, 1, place) \o Insertion(t, length) \o
    [i \in 1..(Len(frags) - place) |->
        IF place + i \in gone
        THEN [frags[place + i] EXCEPT !.visible = FALSE, !.deletions = @ \cup {t}]
        ELSE frags[place + i]]

(* A local insertion goes right before the visible character that follows   *)
(* it, past the deleted ones.                                               *)
LocalPlace(frags, start) ==
    CHOOSE n \in 0..Len(frags) :
        /\ VisibleOffset(frags, n) = start
        /\ n < Len(frags) => frags[n + 1].visible

LocalGone(frags, start, end) ==
    {i \in 1..Len(frags) : frags[i].visible /\ VisibleOffset(frags, i) \in (start + 1)..end}

(* The end of the range in characters of any kind: just past the last       *)
(* character the edit deletes.                                              *)
LocalEnd(frags, start, end) == Max({LocalPlace(frags, start)} \cup LocalGone(frags, start, end))

ApplyLocalEdit(frags, t, start, end, length) ==
    Splice(frags, LocalPlace(frags, start), t, length, LocalGone(frags, start, end))

(* Mutant: concurrent insertions at one place are left in order of arrival. *)
RemotePlaceOnArrival(frags, edit) ==
    CHOOSE n \in 0..Len(frags) :
        /\ FullOffset(frags, edit.version, n) = edit.start
        /\ n > 0 => Observed(edit.version, frags[n].timestamp)

(* A remote insertion goes right after the character before it in its own   *)
(* version, past the insertions it did not know of that are later than it.  *)
RemotePlace(frags, edit) ==
    LET landing == CHOOSE n \in 0..Len(frags) :
                       /\ FullOffset(frags, edit.version, n) = edit.start
                       /\ n > 0 => Observed(edit.version, frags[n].timestamp)
    IN CHOOSE n \in landing..Len(frags) :
           /\ \A i \in (landing + 1)..n : Before(edit.timestamp, frags[i].timestamp)
           /\ n < Len(frags) => ~Before(edit.timestamp, frags[n + 1].timestamp)

(* Only what was visible to its author is deleted.                          *)
RemoteGone(frags, edit, undos) ==
    {i \in 1..Len(frags) :
        /\ WasVisible(frags[i], edit.version, undos)
        /\ FullOffset(frags, edit.version, i) \in (edit.start + 1)..edit.end}

ApplyRemoteEdit(frags, edit, undos) ==
    Splice(frags, RemotePlace(frags, edit), edit.timestamp, edit.length,
           RemoteGone(frags, edit, undos))

(* Mutant: only the fragments inserted by the edits are looked at again.    *)
ApplyUndoToInsertions(frags, undo, undos) ==
    [i \in DOMAIN frags |->
        IF frags[i].timestamp \in DOMAIN undo.counts
        THEN [frags[i] EXCEPT !.visible = IsVisible(frags[i], undos)]
        ELSE frags[i]]

(* An undo recomputes the visibility of the fragments its edits inserted or *)
(* deleted, and of no other.                                                *)
ApplyUndo(frags, undo, undos) ==
    [i \in DOMAIN frags |->
        IF (frags[i].deletions \cup {frags[i].timestamp}) \cap DOMAIN undo.counts # {}
        THEN [frags[i] EXCEPT !.visible = IsVisible(frags[i], undos)]
        ELSE frags[i]]
=============================================================================
