--------------------------- MODULE MCPopulations ---------------------------
(***************************************************************************)
(* Populations of requests for the runs of PnWorker, and their links.      *)
(***************************************************************************)
EXTENDS Sequences

MCLinks  == {"a", "b", "m", "k", "s"}
MCHashes == {"h"}
\* "a" is a .torrent link, "m" a magnet of the same torrent, "b" a video url;
\* "k" is what a keycode carries, "s" what the jobs of a studio carry
MCHashOf == [l \in MCLinks |-> IF l \in {"a", "m"} THEN "h" ELSE "none"]

Plain(t, l) == [type |-> t, link |-> l, idx |-> 0, look |-> "x", keep |-> FALSE,
                files |-> {}, needs |-> {}, probe |-> 0]

Looking(r, l) == [r EXCEPT !.look = l]
Kept(r)       == [r EXCEPT !.keep = TRUE]

\* two encodes that have nothing in common but the encoder
KeptAndPlain == <<Kept(Plain("Encode", "b")), Plain("Encode", "m")>>
\* three encodes of one link, none of which may follow another
SharedInput == <<Plain("Encode", "b"), Looking(Plain("Encode", "b"), "y"),
                 Kept(Looking(Plain("Encode", "b"), "z"))>>
\* one encode asked for twice, and a third of the same link
Sharing == <<Plain("Encode", "b"), Plain("Encode", "b"), Kept(Looking(Plain("Encode", "b"), "y"))>>
\* files of a torrent, with and without a rival for the encoder
JustBatch == <<[Plain("Batch", "a") EXCEPT !.files = {1, 2}]>>
OneFileBatch == <<[Plain("Batch", "a") EXCEPT !.files = {1}]>>
BatchAndRival == JustBatch \o <<Plain("Encode", "b")>>
\* an encode whose output is kept, without and with the keycode that needs it
JustKept == <<Kept(Plain("Encode", "b"))>>
KeepAndUse == JustKept \o <<[Plain("Keycode", "k") EXCEPT !.needs = {1}]>>
\* a probe, a backup built from it, and a preview of the same torrent
Pooled == <<Plain("Probe", "a"), [Plain("Backup", "a") EXCEPT !.probe = 1, !.idx = 1],
            Plain("Preview", "a")>>
\* a render, which goes straight to the encoder, and a preview of a draft
Studios == <<Plain("Studio", "s"), Plain("StudioPreview", "s")>>
\* two links that turn out to be the same torrent
SameTorrent == <<Plain("BackupAll", "m"), Plain("Encode", "a")>>
TwoLinks == <<Plain("Encode", "a"), Plain("Encode", "m")>>
\* a batch that meets another download of its torrent at the lock
RivalTorrents == <<Plain("BackupAll", "m")>> \o OneFileBatch
\* an encode and its twin whose output is kept
KeptTwin == <<Plain("Encode", "b"), Kept(Plain("Encode", "b"))>>
\* an encode that is kept, its twin that is not, and the keycode that needs it
Failing == <<Kept(Plain("Encode", "b")), Plain("Encode", "b"),
             [Plain("Keycode", "k") EXCEPT !.needs = {1}]>>
\* the same, a probe and a preview, and an encode that shares only the encoder
FailingApart == Failing \o <<Plain("Probe", "a"), Plain("Preview", "a"), Plain("Encode", "m")>>
\* a backup that is kept, and the keycode that needs it
BackupAndUse == <<Kept(Plain("Backup", "b")), [Plain("Keycode", "k") EXCEPT !.needs = {1}]>>
\* a backup whose input is kept, and the subtitles of the same video
KeepBackup == <<Kept(Plain("Backup", "b")), Plain("Subs", "b")>>
=============================================================================
