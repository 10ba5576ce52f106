-------------------------------- MODULE MCFs --------------------------------
(***************************************************************************)
(* Values for the small instances of Fs.                                   *)
(***************************************************************************)
EXTENDS Fs, TLC

\* One byte: with append, files of less than a sector, of one, and of two
\* clusters of which the second is not full.
DirTexts == {<<"a">>}
\* One sector and two sectors.
FaultTexts == {<<"a">>, <<"b", "b">>}

\* Names of two letters, and what is left of an overwritten one; with
\* FS_MAX_PATH = 9 the third of three nested directories has no room.
TwoLetters == [n \in Names \cup {STALE} |-> IF n = STALE THEN 0 ELSE 2]
Leftovers == {<<STALE>>, <<STALE, STALE>>}

\* What steps and properties depend on: not which the last command was, and not
\* what a path that was cut reads, for it stays cut until it is set to the root.
State == <<disk, fat, root, cwd, path, cut, IF cut THEN <<>> ELSE current_path,
           fs_ready, ret>>

\* No command treats one name differently from another.
SameNames == Permutations(Names)

\* Only volumes in order are followed further: what one fault does is the
\* question, not what further commands make of a damaged volume.
FromOrder == ~fs_ready \/ InOrder

\* A user who keeps logs: the files are only ever appended to.
AppendNext == fs_init \/ \E n \in Names, t \in Texts : fs_append(n, t) /\ Gave("append", n, t)
AppendSpec == Init /\ [][AppendNext]_vars
=============================================================================
