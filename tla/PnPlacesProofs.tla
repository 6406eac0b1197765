--------------------------- MODULE PnPlacesProofs ---------------------------
(***************************************************************************)
(* A job is with one worker at a time.  What keeps it so: a worker that    *)
(* has a job, or has said something about it that the loop has not heard   *)
(* yet, has it to itself; the last thing it says about a job is that it    *)
(* has let go of it; and a job that is with a worker is in a stage from    *)
(* which the loop gives it to nobody, until it has heard that last word.   *)
(***************************************************************************)
EXTENDS PnWorkerProofs

InSeq(i, s) == \E k \in DOMAIN s : s[k] = i
Once(s) == \A k, l \in DOMAIN s : s[k] = s[l] => k = l

(* What a channel says about a job.  The last word is any stage but         *)
(* Encoding, or the name of the job that downloads the torrent already.     *)
Ends(m)     == m.kind = "duplicate" \/ (m.kind = "stage" /\ m.stage # "Encoding")
Said(i, s)  == \E k \in DOMAIN s : s[k].id = i
Ended(i, s) == \E k \in DOMAIN s : s[k].id = i /\ Ends(s[k])
LastWord(s) == \A a, b \in DOMAIN s : Ends(s[a]) /\ s[b].id = s[a].id => b <= a

(* Where a job is: with a layer, or the loop has not heard all it said.     *)
Pending(p, i) == InSeq(i, pend[p])
Tasked(p, i)  == run[p][i] # "idle"
Inboxed(i)    == InSeq(i, inbox)
Told(l, i)    == Said(i, ret[l])
Holds(l, i) == IF l = "Encode" THEN cur = i \/ Inboxed(i) ELSE Pending(l, i) \/ Tasked(l, i)
With(l, i)  == Holds(l, i) \/ Told(l, i)

\* A job that waits in a layer waits there once, and nothing was said about it.
PendingOnce(p) ==
  Once(pend[p]) /\ \A i \in Ids : Pending(p, i) => ~Tasked(p, i) /\ ~Told(p, i)
InboxedOnce ==
  Once(inbox) /\ \A i \in Ids : Inboxed(i) => cur # i /\ ~Told("Encode", i)
\* After its last word about a job the layer says nothing more about it.
LetsGo(l) ==
  LastWord(ret[l]) /\ \A i \in Ids : Ended(i, ret[l]) => ~Holds(l, i)
Orderly(l) == LetsGo(l) /\ IF l = "Encode" THEN InboxedOnce ELSE PendingOnce(l)

\* A job is with one layer, and each keeps its jobs in order.
OneLayer == \A i \in Ids : \A l, k \in Layers : With(l, i) /\ With(k, i) => l = k
Places == OneLayer /\ \A l \in Layers : Orderly(l)

\* What the loop knows of a job that is with a layer.
Fits(l, i) ==
  /\ job[i].fwd = 0
  /\ l = "Download" => job[i].ready = "Downloading" /\ job[i].dup = 0
  /\ l = "Upload" => job[i].ready = "Uploading"
  /\ l = "Probe" => job[i].ready \in {"Probing", "Encoding"}
  /\ l = "Encode" =>
       /\ job[i].dispatched /\ ~Batch(i)
       /\ Type(i) \notin {"Subs", "Preview", "Backup", "BackupAll"}
       /\ \/ job[i].ready = "Encoding"
          \/ job[i].ready = "Downloaded" /\ job[i].epoch = epoch
          \/ job[i].ready = "Queued" /\ Type(i) = "Keycode" /\ job[i].epoch = epoch
Served == \A l \in Layers : \A i \in queue : With(l, i) => Fits(l, i)

\* No layer has heard of an id that was not handed out, or of the job that is
\* being admitted.
Fresh ==
  \A l \in Layers : \A i \in Ids :
    With(l, i) => i < nextId /\ ~(pc = "admit" /\ i \in pass.todo)

\* The jobs a walk visits are still what they were when it started.
WalksHold ==
  /\ pc = "dup" => \A i \in pass.todo : job[i].dup # 0 /\ job[i].ready = "Downloading"
  /\ pc = "wait" => \A i \in pass.todo :
       /\ job[i].ready = "Queued" /\ Type(i) \in RequeueTypes
       /\ job[i].fwd = 0 /\ job[i].dup = 0

\* A job that is to be downloaded waits for nobody else's input.
QueuedOweNothing == \A i \in queue : job[i].ready = "Queued" => job[i].dup = 0

PlacesInv == Places /\ Served /\ Fresh /\ WalksHold

-----------------------------------------------------------------------------
(* Sequences *)

\* What is appended is in, and what was in stays.
LEMMA Appended ==
  ASSUME NEW S, NEW s \in Seq(S), NEW x \in S
  PROVE  /\ \A i : InSeq(i, Append(s, x)) <=> InSeq(i, s) \/ i = x
         /\ Once(s) /\ ~InSeq(x, s) => Once(Append(s, x))
<1>1. /\ DOMAIN Append(s, x) = DOMAIN s \cup {Len(s) + 1}
      /\ \A k \in DOMAIN s : Append(s, x)[k] = s[k]
      /\ Append(s, x)[Len(s) + 1] = x
      /\ Len(s) + 1 \notin DOMAIN s
  OBVIOUS
<1> QED
  BY <1>1, Zenon DEF InSeq, Once

\* The head of a sequence without repetitions is not in its tail.
LEMMA HeadOff ==
  ASSUME NEW S, NEW s \in Seq(S), s # <<>>
  PROVE  /\ InSeq(Head(s), s)
         /\ \A i : InSeq(i, Tail(s)) => InSeq(i, s)
         /\ Once(s) => Once(Tail(s)) /\ ~InSeq(Head(s), Tail(s))
<1>1. /\ 1 \in DOMAIN s /\ Head(s) = s[1]
      /\ \A k \in DOMAIN Tail(s) : /\ k + 1 \in DOMAIN s /\ k + 1 # 1
                                   /\ Tail(s)[k] = s[k + 1]
      /\ \A k, l \in DOMAIN Tail(s) : k + 1 = l + 1 => k = l
  OBVIOUS
<1>2. InSeq(Head(s), s) /\ \A i : InSeq(i, Tail(s)) => InSeq(i, s)
  BY <1>1 DEF InSeq
<1>3. ASSUME Once(s) PROVE Once(Tail(s)) /\ ~InSeq(Head(s), Tail(s))
  BY <1>1, <1>3 DEF InSeq, Once
<1> QED
  BY <1>2, <1>3

\* What a channel says with one message more ...
LEMMA SaidMore ==
  ASSUME NEW s \in Seq(Message), NEW m \in Message
  PROVE  /\ \A i : Said(i, Append(s, m)) <=> Said(i, s) \/ i = m.id
         /\ \A i : Ended(i, Append(s, m)) <=> Ended(i, s) \/ (i = m.id /\ Ends(m))
         /\ LastWord(s) /\ ~Ended(m.id, s) => LastWord(Append(s, m))
<1>1. /\ DOMAIN Append(s, m) = DOMAIN s \cup {Len(s) + 1}
      /\ \A k \in DOMAIN s : Append(s, m)[k] = s[k] /\ k <= Len(s) + 1
      /\ Append(s, m)[Len(s) + 1] = m
      /\ Len(s) + 1 <= Len(s) + 1
  OBVIOUS
<1>2. /\ \A i : Said(i, Append(s, m)) <=> Said(i, s) \/ i = m.id
      /\ \A i : Ended(i, Append(s, m)) <=> Ended(i, s) \/ (i = m.id /\ Ends(m))
  BY <1>1, Zenon DEF Said, Ended
<1>3. ASSUME LastWord(s), ~Ended(m.id, s) PROVE LastWord(Append(s, m))
  BY <1>1, <1>3, Zenon DEF LastWord, Ended
<1> QED
  BY <1>2, <1>3

\* ... and with its first message taken: a last word was all there was.
LEMMA SaidLess ==
  ASSUME NEW s \in Seq(Message), s # <<>>
  PROVE  /\ \A i : Said(i, Tail(s)) => Said(i, s)
         /\ \A i : Ended(i, Tail(s)) => Ended(i, s)
         /\ Said(Head(s).id, s)
         /\ LastWord(s) => /\ LastWord(Tail(s))
                           /\ Ends(Head(s)) => ~Said(Head(s).id, Tail(s))
<1>1. /\ 1 \in DOMAIN s /\ Head(s) = s[1]
      /\ \A k \in DOMAIN Tail(s) : /\ k + 1 \in DOMAIN s /\ ~(k + 1 <= 1)
                                   /\ Tail(s)[k] = s[k + 1]
      /\ \A k, l \in DOMAIN Tail(s) : k + 1 <= l + 1 => k <= l
  OBVIOUS
<1>2. /\ \A i : Said(i, Tail(s)) => Said(i, s)
      /\ \A i : Ended(i, Tail(s)) => Ended(i, s)
      /\ Said(Head(s).id, s)
  BY <1>1 DEF Said, Ended
<1>3. ASSUME LastWord(s) PROVE LastWord(Tail(s)) /\ (Ends(Head(s)) => ~Said(Head(s).id, Tail(s)))
  <2> DEFINE t == Tail(s)
  <2>1. ASSUME NEW a \in DOMAIN t, NEW b \in DOMAIN t, Ends(t[a]), t[b].id = t[a].id
        PROVE  b <= a
    BY <1>1, <1>3, <2>1 DEF LastWord
  <2>2. ASSUME Ends(Head(s)), NEW k \in DOMAIN t, t[k].id = Head(s).id PROVE FALSE
    BY <1>1, <1>3, <2>2 DEF LastWord
  <2> QED
    BY <2>1, <2>2 DEF LastWord, Said
<1> QED
  BY <1>2, <1>3

\* Nothing is in an empty channel.
LEMMA NothingSaid ==
  /\ \A i : ~InSeq(i, <<>>) /\ ~Said(i, <<>>) /\ ~Ended(i, <<>>)
  /\ Once(<<>>) /\ LastWord(<<>>)
<1>1. DOMAIN <<>> = {}
  OBVIOUS
<1> QED
  BY <1>1 DEF InSeq, Said, Ended, Once, LastWord

-----------------------------------------------------------------------------
(* The layers one by one *)

\* Nothing that says where a job is changes at layer l.
Still(l) ==
  /\ ret'[l] = ret[l]
  /\ l = "Encode" => inbox' = inbox /\ cur' = cur
  /\ l \in Pools => pend'[l] = pend[l] /\ run'[l] = run[l]

\* A layer at which nothing changes keeps its jobs, and its order.
LEMMA StillThere ==
  ASSUME NEW l \in Layers, Still(l)
  PROVE  /\ \A i : Holds(l, i)' <=> Holds(l, i)
         /\ \A i : With(l, i)' <=> With(l, i)
         /\ Orderly(l)' <=> Orderly(l)
<1>1. CASE l = "Encode"
  <2>1. ret'[l] = ret[l] /\ inbox' = inbox /\ cur' = cur
    BY <1>1 DEF Still
  <2>2. /\ \A i : Told(l, i)' <=> Told(l, i)
        /\ \A i : Inboxed(i)' <=> Inboxed(i)
        /\ \A i : Holds(l, i)' <=> Holds(l, i)
    BY <1>1, <2>1 DEF Told, Inboxed, Holds
  <2> QED
    BY <1>1, <2>1, <2>2 DEF With, Orderly, LetsGo, InboxedOnce
<1>2. CASE l # "Encode"
  <2>1. ret'[l] = ret[l] /\ pend'[l] = pend[l] /\ run'[l] = run[l]
    BY <1>2 DEF Still, Layers
  <2>2. /\ \A i : Told(l, i)' <=> Told(l, i)
        /\ \A i : Pending(l, i)' <=> Pending(l, i)
        /\ \A i : Tasked(l, i)' <=> Tasked(l, i)
        /\ \A i : Holds(l, i)' <=> Holds(l, i)
    BY <1>2, <2>1 DEF Told, Pending, Tasked, Holds
  <2> QED
    BY <1>2, <2>1, <2>2 DEF With, Orderly, LetsGo, PendingOnce
<1> QED
  BY <1>1, <1>2

\* No job comes to a layer, but for one that was with none.
NoNewcomer(l, i) ==
  \A k \in Ids : With(l, k)' => With(l, k) \/ (k = i /\ \A x \in Layers : ~With(x, i))

\* When one layer changes, and stays in order, all places stay in order.
LEMMA OneChanges ==
  ASSUME Places, NEW l \in Layers, NEW i, \A x \in Layers \ {l} : Still(x),
         Orderly(l)', NoNewcomer(l, i)
  PROVE  /\ Places'
         /\ \A x \in Layers, k \in Ids : With(x, k)' => With(x, k) \/ (x = l /\ k = i)
<1>1. \A x \in Layers \ {l} : Orderly(x)' /\ \A k : With(x, k)' <=> With(x, k)
  BY StillThere DEF Places
<1>2. \A x \in Layers : Orderly(x)'
  BY <1>1
<1>3. OneLayer'
  <2> SUFFICES ASSUME NEW k \in Ids, NEW x \in Layers, NEW y \in Layers,
                      With(x, k)', With(y, k)'
               PROVE  x = y
    BY DEF OneLayer
  <2>1. CASE x # l /\ y # l
    BY <1>1, <2>1 DEF Places, OneLayer
  <2>2. CASE x # l /\ y = l
    BY <1>1, <2>2 DEF Places, OneLayer, NoNewcomer
  <2>3. CASE x = l /\ y # l
    BY <1>1, <2>3 DEF Places, OneLayer, NoNewcomer
  <2> QED
    BY <2>1, <2>2, <2>3
<1> QED
  BY <1>1, <1>2, <1>3 DEF Places, NoNewcomer

\* A message about a job that the layer holds, or that was with none.
LEMMA Reports ==
  ASSUME LayersTypeOK, NEW l \in Layers, NEW m \in Message, ret' = Sent(l, m)
  PROVE  /\ \A x \in Layers \ {l} : ret'[x] = ret[x]
         /\ \A i : Told(l, i)' <=> Told(l, i) \/ i = m.id
         /\ \A i : Ended(i, ret'[l]) <=> Ended(i, ret[l]) \/ (i = m.id /\ Ends(m))
         /\ LastWord(ret[l]) /\ ~Ended(m.id, ret[l]) => LastWord(ret'[l])
<1>1. /\ ret[l] \in Seq(Message) /\ ret'[l] = Append(ret[l], m)
      /\ \A x \in Layers \ {l} : ret'[x] = ret[x]
  BY DEF LayersTypeOK, Sent
<1> QED
  BY <1>1, SaidMore DEF Told

\* What the messages say, and whether it is the last word.
LEMMA Messages ==
  ASSUME NEW i \in Ids
  PROVE  /\ AssignMsg(i).id = i /\ ~Ends(AssignMsg(i))
         /\ \A f \in Idx : FileDoneMsg(i, f).id = i /\ ~Ends(FileDoneMsg(i, f))
         /\ \A o : DuplicateMsg(i, o).id = i /\ Ends(DuplicateMsg(i, o))
         /\ \A s : /\ StageMsg(i, s).id = i
                   /\ Ends(StageMsg(i, s)) <=> s # "Encoding"
  BY DEF AssignMsg, FileDoneMsg, DuplicateMsg, StageMsg, Note, Ends

\* A last word is a word.
LEMMA EndedIsSaid == \A i, s : Ended(i, s) => Said(i, s)
  BY DEF Ended, Said

-----------------------------------------------------------------------------
(* What the loop does to the layers *)

\* Nothing: the layers keep what they had.
LEMMA NothingSent ==
  ASSUME Places, UNCHANGED <<pend, run, inbox, cur, ret>>
  PROVE  Places' /\ \A l \in Layers, k \in Ids : With(l, k)' => With(l, k)
<1>1. \A l \in Layers : Still(l)
  BY DEF Still
<1>2. \A l \in Layers : Orderly(l)' /\ \A k : With(l, k)' <=> With(l, k)
  BY <1>1, StillThere DEF Places
<1> QED
  BY <1>2 DEF Places, OneLayer

\* A job that was with nobody goes to a pool.
LEMMA SentToPool ==
  ASSUME LayersTypeOK, Places, NEW p \in Pools, NEW i \in Ids, \A x \in Layers : ~With(x, i),
         PoolSend(p, i), UNCHANGED <<run, inbox, cur, ret>>
  PROVE  /\ Places'
         /\ \A l \in Layers, k \in Ids : With(l, k)' => With(l, k) \/ (l = p /\ k = i)
<1>1. p \in Layers /\ p # "Encode"
  BY DEF Pools, Layers
<1>2. /\ pend[p] \in Seq(Ids) /\ pend'[p] = Append(pend[p], i)
      /\ \A x \in Pools \ {p} : pend'[x] = pend[x]
  BY DEF LayersTypeOK, PoolSend
<1>3. \A x \in Layers \ {p} : Still(x)
  BY <1>2 DEF Still
<1>4. ~Pending(p, i) /\ ~Tasked(p, i) /\ ~Told(p, i)
  BY <1>1 DEF With, Holds
<1>5. /\ \A k : Pending(p, k)' <=> Pending(p, k) \/ k = i
      /\ \A k : Tasked(p, k)' <=> Tasked(p, k)
      /\ \A k : Told(p, k)' <=> Told(p, k)
      /\ Once(pend[p]) => Once(pend'[p])
  BY <1>2, <1>4, Appended DEF Pending, Tasked, Told
<1>6. PendingOnce(p) /\ LetsGo(p)
  BY <1>1 DEF Places, Orderly
<1>7. PendingOnce(p)'
  BY <1>4, <1>5, <1>6 DEF PendingOnce
<1>8. LetsGo(p)'
  BY <1>1, <1>4, <1>5, <1>6, EndedIsSaid DEF LetsGo, Holds, Told
<1>9. NoNewcomer(p, i)
  BY <1>1, <1>5 DEF NoNewcomer, With, Holds
<1> QED
  BY <1>1, <1>3, <1>7, <1>8, <1>9, OneChanges DEF Orderly

\* A reboot leaves the encoder with what is sent next, or with nothing.
LEMMA Rebooted ==
  ASSUME LayersTypeOK, Places, NEW s \in Seq(Ids), EncodeReboot(s), UNCHANGED <<pend, run>>,
         s = <<>> \/ \E i \in Ids : s = <<i>> /\ \A x \in Layers : ~With(x, i)
  PROVE  /\ Places'
         /\ \A k \in Ids : With("Encode", k)' <=> InSeq(k, s)
         /\ \A l \in Layers, k \in Ids : With(l, k)' => With(l, k) \/ (l = "Encode" /\ InSeq(k, s))
<1>1. /\ "Encode" \in Layers /\ inbox' = s /\ cur' = 0
      /\ ret'["Encode"] = <<>> /\ \A l \in Layers \ {"Encode"} : ret'[l] = ret[l]
  BY DEF EncodeReboot, LayersTypeOK, Layers
<1>2. \A l \in Layers \ {"Encode"} : Still(l)
  BY <1>1 DEF Still
<1>3. 0 \notin Ids
  BY PnJobsAssumption DEF Ids
<1>4. \A k \in Ids : /\ ~Told("Encode", k)' /\ ~Ended(k, ret'["Encode"])
                     /\ Holds("Encode", k)' <=> InSeq(k, s)
                     /\ With("Encode", k)' <=> InSeq(k, s)
  BY <1>1, <1>3, NothingSaid DEF Told, Holds, Inboxed, With
<1>5. Once(s)
  <2>1. \A i : Once(<<i>>)
    BY DEF Once
  <2> QED
    BY <2>1, NothingSaid
<1>6. Orderly("Encode")'
  BY <1>1, <1>3, <1>4, <1>5, NothingSaid DEF Orderly, LetsGo, InboxedOnce, Inboxed
<1>7. CASE s = <<>>
  <2>1. NoNewcomer("Encode", 0)
    BY <1>4, <1>7, NothingSaid DEF NoNewcomer
  <2>2. /\ Places'
        /\ \A l \in Layers, k \in Ids : With(l, k)' => With(l, k) \/ (l = "Encode" /\ k = 0)
    BY <1>1, <1>2, <1>6, <2>1, OneChanges
  <2> QED
    BY <1>3, <1>4, <2>2
<1>8. ASSUME NEW i \in Ids, s = <<i>>, \A x \in Layers : ~With(x, i)
      PROVE  Places' /\ \A l \in Layers, k \in Ids :
                          With(l, k)' => With(l, k) \/ (l = "Encode" /\ InSeq(k, s))
  <2>1. \A k : InSeq(k, s) <=> k = i
    BY <1>8 DEF InSeq
  <2>2. NoNewcomer("Encode", i)
    BY <1>4, <1>8, <2>1 DEF NoNewcomer
  <2>3. /\ Places'
        /\ \A l \in Layers, k \in Ids : With(l, k)' => With(l, k) \/ (l = "Encode" /\ k = i)
    BY <1>1, <1>2, <1>6, <2>2, OneChanges
  <2> QED
    BY <2>1, <2>3
<1> QED
  BY <1>4, <1>7, <1>8

\* A job that was with nobody goes to the encoder, or to a rebooted one.
LEMMA SentToEncoder ==
  ASSUME LayersTypeOK, Places, NEW i \in Ids, \A x \in Layers : ~With(x, i),
         EncodeSend(i), UNCHANGED <<pend, run>>
  PROVE  /\ Places'
         /\ \A l \in Layers, k \in Ids : With(l, k)' => With(l, k) \/ (l = "Encode" /\ k = i)
         /\ \/ epoch' = epoch
            \/ epoch' = epoch + 1 /\ \A k \in Ids : With("Encode", k)' => k = i
<1>1. CASE inbox' = Append(inbox, i) /\ UNCHANGED <<cur, epoch, ret>>
  <2>1. "Encode" \in Layers /\ inbox \in Seq(Ids)
    BY DEF Layers, LayersTypeOK
  <2>2. \A l \in Layers \ {"Encode"} : Still(l)
    BY <1>1 DEF Still
  <2>3. cur # i /\ ~Inboxed(i) /\ ~Told("Encode", i)
    BY <2>1 DEF With, Holds
  <2>4. /\ \A k : Inboxed(k)' <=> Inboxed(k) \/ k = i
        /\ \A k : Told("Encode", k)' <=> Told("Encode", k)
        /\ Once(inbox) => Once(inbox')
    BY <1>1, <2>1, <2>3, Appended DEF Inboxed, Told
  <2>5. InboxedOnce /\ LetsGo("Encode")
    BY <2>1 DEF Places, Orderly
  <2>6. InboxedOnce'
    BY <1>1, <2>3, <2>4, <2>5 DEF InboxedOnce
  <2>7. LetsGo("Encode")'
    BY <1>1, <2>3, <2>4, <2>5, EndedIsSaid DEF LetsGo, Holds, Told
  <2>8. NoNewcomer("Encode", i)
    BY <1>1, <2>4 DEF NoNewcomer, With, Holds
  <2> QED
    BY <1>1, <2>1, <2>2, <2>6, <2>7, <2>8, OneChanges DEF Orderly
<1>2. CASE EncodeReboot(<<i>>)
  <2>1. <<i>> \in Seq(Ids) /\ \A k : InSeq(k, <<i>>) => k = i
    BY DEF InSeq
  <2>2. epoch' = epoch + 1
    BY <1>2 DEF EncodeReboot
  <2> DEFINE s == <<i>>
  <2>3. s \in Seq(Ids) /\ EncodeReboot(s) /\ s = <<i>> /\ \A k : InSeq(k, s) => k = i
    BY <1>2, <2>1
  <2> HIDE DEF s
  <2>4. /\ Places'
        /\ \A k \in Ids : With("Encode", k)' <=> InSeq(k, s)
        /\ \A l \in Layers, k \in Ids : With(l, k)' => With(l, k) \/ (l = "Encode" /\ InSeq(k, s))
    BY <2>3, Rebooted
  <2> QED
    BY <2>2, <2>3, <2>4
<1> QED
  BY <1>1, <1>2 DEF EncodeSend

\* The loop hears a layer; if that was its last word, the job is with nobody.
LEMMA Heard ==
  ASSUME LayersTypeOK, Places, NEW l \in Layers, ret[l] # <<>>, Received(l),
         UNCHANGED <<pend, run, inbox, cur>>, NEW CONSTANT m, m = Head(ret[l])
  PROVE  /\ Places'
         /\ \A x \in Layers, k \in Ids : With(x, k)' => With(x, k)
         /\ m \in Message /\ m.id \in Ids /\ Told(l, m.id)
         /\ Ends(m) => \A x \in Layers : ~With(x, m.id)'
<1>1. /\ ret[l] \in Seq(Message) /\ ret'[l] = Tail(ret[l])
      /\ \A x \in Layers \ {l} : ret'[x] = ret[x]
  BY DEF LayersTypeOK, Received
<1>2. m \in Message /\ m.id \in Ids
  <2>1. m \in Message
    BY <1>1
  <2> QED
    BY <2>1 DEF Message
<1>3. /\ \A k : Told(l, k)' => Told(l, k)
      /\ \A k : Ended(k, ret'[l]) => Ended(k, ret[l])
      /\ Told(l, m.id)
      /\ LastWord(ret[l]) => LastWord(ret'[l]) /\ (Ends(m) => ~Told(l, m.id)')
  BY <1>1, SaidLess DEF Told
<1>4. /\ \A k : Holds(l, k)' <=> Holds(l, k)
      /\ \A k : Tasked(l, k)' <=> Tasked(l, k)
      /\ \A k : Pending(l, k)' <=> Pending(l, k)
      /\ \A k : Inboxed(k)' <=> Inboxed(k)
  BY DEF Holds, Tasked, Pending, Inboxed
<1>5. Ends(m) => Ended(m.id, ret[l])
  BY <1>1 DEF Ended
<1>6. LetsGo(l) /\ LetsGo(l)'
  BY <1>3, <1>4 DEF Places, Orderly, LetsGo
<1>7. Orderly(l)'
  BY <1>3, <1>4, <1>6 DEF Places, Orderly, InboxedOnce, PendingOnce
<1>8. \A x \in Layers \ {l} : Still(x)
  BY <1>1 DEF Still
<1>9. NoNewcomer(l, 0)
  BY <1>3, <1>4 DEF NoNewcomer, With
<1>10. /\ Places'
       /\ \A x \in Layers, k \in Ids : With(x, k)' => With(x, k) \/ (x = l /\ k = 0)
  BY <1>7, <1>8, <1>9, OneChanges
<1>11. 0 \notin Ids
  BY PnJobsAssumption DEF Ids
<1>12. \A x \in Layers, k \in Ids : With(x, k)' => With(x, k)
  BY <1>10, <1>11
<1>13. ASSUME Ends(m), NEW x \in Layers, With(x, m.id)' PROVE FALSE
  <2>1. ~Told(l, m.id)' /\ ~Holds(l, m.id)
    BY <1>2, <1>3, <1>5, <1>6, <1>13 DEF LetsGo
  <2>2. x # l
    BY <1>4, <1>13, <2>1 DEF With
  <2>3. With(l, m.id) /\ With(x, m.id)
    BY <1>2, <1>3, <1>12, <1>13 DEF With
  <2> QED
    BY <1>2, <2>2, <2>3 DEF Places, OneLayer
<1> QED
  BY <1>2, <1>3, <1>10, <1>12, <1>13

-----------------------------------------------------------------------------
(* What the layers do by themselves *)

\* A task that moves tells the phases of its own job only.
LEMMA TaskMoves ==
  ASSUME LayersTypeOK, NEW p \in Pools, NEW i \in Ids, NEW phase, Task(p, i, phase)
  PROVE  /\ \A x \in Pools \ {p} : run'[x] = run[x]
         /\ \A k \in Ids \ {i} : Tasked(p, k)' <=> Tasked(p, k)
         /\ Tasked(p, i)' <=> phase # "idle"
  BY DEF LayersTypeOK, Task, Tasked

\* What a layer does with the jobs it holds, saying at most something about one
\* of them: nobody comes, and the others are as they were.
LEMMA PoolMoves ==
  ASSUME LayersTypeOK, Places, NEW p \in Pools, NEW i \in Ids, UNCHANGED <<inbox, cur>>,
         \A x \in Pools \ {p} : run'[x] = run[x] /\ pend'[x] = pend[x],
         \A k \in Ids \ {i} : Tasked(p, k)' <=> Tasked(p, k),
         \A k \in Ids : Pending(p, k)' => Pending(p, k),
         Once(pend[p]) => Once(pend'[p]), ~Pending(p, i)',
         Holds(p, i), NEW m \in Message, m.id = i, ret' = ret \/ ret' = Sent(p, m),
         Ends(m) => ~Tasked(p, i)'
  PROVE  Places' /\ \A l \in Layers, k \in Ids : With(l, k)' => With(l, k)
<1>1. p \in Layers /\ p # "Encode"
  BY DEF Pools, Layers
<1>2. /\ \A x \in Layers \ {p} : ret'[x] = ret[x]
      /\ \A k : Told(p, k)' => Told(p, k) \/ k = i
      /\ \A k : Ended(k, ret'[p]) => Ended(k, ret[p]) \/ (k = i /\ Ends(m))
      /\ LastWord(ret[p]) /\ ~Ended(i, ret[p]) => LastWord(ret'[p])
  <2>1. CASE ret' = ret
    BY <2>1 DEF Told
  <2>2. CASE ret' = Sent(p, m)
    BY <1>1, <2>2, Reports
  <2> QED
    BY <2>1, <2>2
<1>3. \A x \in Layers \ {p} : Still(x)
  BY <1>2 DEF Still
<1>4. PendingOnce(p) /\ LetsGo(p)
  BY <1>1 DEF Places, Orderly
<1>5. ~Ended(i, ret[p])
  BY <1>4 DEF LetsGo
<1>6. \A k \in Ids \ {i} : Holds(p, k)' => Holds(p, k)
  BY <1>1 DEF Holds
<1>7. Holds(p, i)' <=> Tasked(p, i)'
  BY <1>1 DEF Holds
<1>8. LetsGo(p)'
  BY <1>2, <1>4, <1>5, <1>6, <1>7 DEF LetsGo
<1>9. PendingOnce(p)'
  BY <1>2, <1>4 DEF PendingOnce
<1>10. \A k \in Ids : With(p, k)' => With(p, k)
  BY <1>2, <1>6 DEF With
<1>11. NoNewcomer(p, 0)
  BY <1>10 DEF NoNewcomer
<1>12. /\ Places'
       /\ \A l \in Layers, k \in Ids : With(l, k)' => With(l, k) \/ (l = p /\ k = 0)
  BY <1>1, <1>3, <1>8, <1>9, <1>11, OneChanges DEF Orderly
<1> QED
  BY <1>10, <1>12

\* A task says its last word and is gone.
LEMMA PoolEndMoves ==
  ASSUME LayersTypeOK, Places, NEW p \in Pools, NEW i \in Ids, NEW m \in Message,
         m.id = i, PoolEnd(p, i, m)
  PROVE  Places' /\ \A l \in Layers, k \in Ids : With(l, k)' => With(l, k)
<1>1. p \in Layers /\ p # "Encode"
  BY DEF Pools, Layers
<1>2. /\ Tasked(p, i) /\ Task(p, i, "idle") /\ ret' = Sent(p, m)
      /\ UNCHANGED <<pend, inbox, cur>>
  BY DEF PoolEnd, Tasked, encVars
<1>3. /\ \A x \in Pools \ {p} : run'[x] = run[x]
      /\ \A k \in Ids \ {i} : Tasked(p, k)' <=> Tasked(p, k)
      /\ ~Tasked(p, i)'
  BY <1>2, TaskMoves
<1>4. /\ \A k \in Ids : Pending(p, k)' <=> Pending(p, k)
      /\ pend' = pend
  BY <1>2 DEF Pending
<1>5. ~Pending(p, i)
  BY <1>1, <1>2 DEF Places, Orderly, PendingOnce
<1>6. Holds(p, i)
  BY <1>1, <1>2 DEF Holds
<1> QED
  BY <1>2, <1>3, <1>4, <1>5, <1>6, PoolMoves

\* A task goes on, and may say so.
LEMMA TaskGoesOn ==
  ASSUME LayersTypeOK, Places, NEW p \in Pools, NEW i \in Ids, NEW m \in Message,
         m.id = i, ~Ends(m), Tasked(p, i), run' = run \/ \E f : f # "idle" /\ Task(p, i, f),
         ret' = ret \/ ret' = Sent(p, m), UNCHANGED <<pend, inbox, cur>>
  PROVE  Places' /\ \A l \in Layers, k \in Ids : With(l, k)' => With(l, k)
<1>1. p \in Layers /\ p # "Encode"
  BY DEF Pools, Layers
<1>2. /\ \A x \in Pools \ {p} : run'[x] = run[x]
      /\ \A k \in Ids \ {i} : Tasked(p, k)' <=> Tasked(p, k)
  <2>1. CASE run' = run
    BY <2>1 DEF Tasked
  <2>2. CASE \E f : Task(p, i, f)
    BY <2>2, TaskMoves
  <2> QED
    BY <2>1, <2>2
<1>3. /\ \A k \in Ids : Pending(p, k)' <=> Pending(p, k)
      /\ pend' = pend
  BY DEF Pending
<1>4. ~Pending(p, i)
  BY <1>1 DEF Places, Orderly, PendingOnce
<1>5. Holds(p, i)
  BY <1>1 DEF Holds
<1> QED
  BY <1>2, <1>3, <1>4, <1>5, PoolMoves

\* A job that waited gets a slot.
LEMMA PoolStartMoves ==
  ASSUME LayersTypeOK, Places, NEW p \in Pools, PoolStart(p)
  PROVE  Places' /\ \A l \in Layers, k \in Ids : With(l, k)' => With(l, k)
<1> DEFINE i == Head(pend[p])
<1>1. p \in Layers /\ p # "Encode"
  BY DEF Pools, Layers
<1>2. PICK j \in Ids : j = i
  BY DEF PoolStart, LayersTypeOK
<1>3. /\ pend[p] \in Seq(Ids) /\ pend[p] # <<>> /\ pend'[p] = Tail(pend[p])
      /\ \A x \in Pools \ {p} : pend'[x] = pend[x]
      /\ Task(p, j, "running")
      /\ ret' = TrySent(p, AssignMsg(j))
      /\ UNCHANGED <<inbox, cur>>
  BY <1>2 DEF PoolStart, LayersTypeOK, encVars
<1>4. /\ \A x \in Pools \ {p} : run'[x] = run[x]
      /\ \A k \in Ids \ {j} : Tasked(p, k)' <=> Tasked(p, k)
  BY <1>3, TaskMoves
<1>5. /\ Pending(p, j) /\ \A k \in Ids : Pending(p, k)' => Pending(p, k)
      /\ Once(pend[p]) => Once(pend'[p]) /\ ~Pending(p, j)'
  BY <1>2, <1>3, HeadOff DEF Pending
<1>6. Once(pend[p]) /\ Holds(p, j)
  BY <1>1, <1>5 DEF Places, Orderly, PendingOnce, Holds
<1>7. AssignMsg(j) \in Message /\ AssignMsg(j).id = j /\ ~Ends(AssignMsg(j))
  BY Messages, MessageTypes
<1>8. ret' = ret \/ ret' = Sent(p, AssignMsg(j))
  BY <1>3 DEF TrySent
<1> HIDE DEF i
<1> QED
  BY <1>3, <1>4, <1>5, <1>6, <1>7, <1>8, PoolMoves

\* The encoder takes a job or lets go of it, and says so.
LEMMA EncoderMoves ==
  ASSUME LayersTypeOK, Places, EncoderNext
  PROVE  Places' /\ \A l \in Layers, k \in Ids : With(l, k)' => With(l, k)
<1>1. /\ "Encode" \in Layers /\ inbox \in Seq(Ids) /\ cur \in Ids0
      /\ 0 \notin Ids /\ \A k \in Ids0 : k # 0 => k \in Ids
  BY PnJobsAssumption DEF Layers, LayersTypeOK, Ids, Ids0
<1>2. InboxedOnce /\ LetsGo("Encode")
  BY <1>1 DEF Places, Orderly
\* what is left to show of either step
<1>3. ASSUME UNCHANGED <<pend, run>>, NEW i \in Ids, NEW m \in Message, m.id = i,
             ret' = Sent("Encode", m), Holds("Encode", i),
             \A k \in Ids : Inboxed(k)' => Inboxed(k), Once(inbox'), ~Inboxed(i)',
             \/ cur' = 0
             \/ cur' = i /\ ~Ends(m)
      PROVE  Places' /\ \A l \in Layers, k \in Ids : With(l, k)' => With(l, k)
  <2>1. /\ \A x \in Layers \ {"Encode"} : ret'[x] = ret[x]
        /\ \A k : Told("Encode", k)' <=> Told("Encode", k) \/ k = i
        /\ \A k : Ended(k, ret'["Encode"]) <=> Ended(k, ret["Encode"]) \/ (k = i /\ Ends(m))
        /\ LastWord(ret["Encode"]) /\ ~Ended(i, ret["Encode"]) => LastWord(ret'["Encode"])
    BY <1>1, <1>3, Reports
  <2>2. \A x \in Layers \ {"Encode"} : Still(x)
    BY <1>3, <2>1 DEF Still
  <2>3. ~Ended(i, ret["Encode"])
    BY <1>2, <1>3 DEF LetsGo
  <2>4. \A k \in Ids : Holds("Encode", k)' => Holds("Encode", k)
    BY <1>1, <1>3 DEF Holds
  <2>5. LetsGo("Encode")'
    BY <1>1, <1>2, <1>3, <2>1, <2>3, <2>4 DEF LetsGo, Holds
  <2>6. InboxedOnce'
    BY <1>1, <1>2, <1>3, <2>1 DEF InboxedOnce
  <2>7. \A k \in Ids : With("Encode", k)' => With("Encode", k)
    BY <1>3, <2>1, <2>4 DEF With
  <2>8. NoNewcomer("Encode", 0)
    BY <2>7 DEF NoNewcomer
  <2>9. /\ Places'
        /\ \A l \in Layers, k \in Ids : With(l, k)' => With(l, k) \/ (l = "Encode" /\ k = 0)
    BY <1>1, <2>2, <2>5, <2>6, <2>8, OneChanges DEF Orderly
  <2> QED
    BY <2>7, <2>9
<1>4. CASE EncodeTake
  <2>1. PICK i \in Ids : i = Head(inbox)
    BY <1>1, <1>4 DEF EncodeTake
  <2>2. /\ inbox # <<>> /\ inbox' = Tail(inbox) /\ UNCHANGED <<pend, run>>
        /\ \/ ret' = Sent("Encode", StageMsg(i, "Cancelled")) /\ cur' = 0
           \/ ret' = Sent("Encode", StageMsg(i, "Encoding")) /\ cur' = i
    BY <1>4, <2>1 DEF EncodeTake, poolVars
  <2>3. /\ Inboxed(i) /\ \A k \in Ids : Inboxed(k)' => Inboxed(k)
        /\ Once(inbox') /\ ~Inboxed(i)'
    BY <1>1, <1>2, <2>1, <2>2, HeadOff DEF Inboxed, InboxedOnce
  <2>4. Holds("Encode", i)
    BY <2>3 DEF Holds
  <2>5. \A s \in {"Cancelled", "Encoding"} :
          /\ StageMsg(i, s) \in Message /\ StageMsg(i, s).id = i
          /\ Ends(StageMsg(i, s)) <=> s # "Encoding"
    BY Messages, MessageTypes DEF Stages
  <2> QED
    BY <1>3, <2>2, <2>3, <2>4, <2>5
<1>5. ASSUME NEW s \in {"Encoded", "Failed", "Cancelled"}, EncodeEnd(s)
      PROVE  Places' /\ \A l \in Layers, k \in Ids : With(l, k)' => With(l, k)
  <2>1. PICK i \in Ids : i = cur
    BY <1>1, <1>5 DEF EncodeEnd
  <2>2. /\ UNCHANGED <<pend, run, inbox>> /\ cur' = 0
        /\ ret' = Sent("Encode", StageMsg(i, s))
    BY <1>5, <2>1 DEF EncodeEnd, poolVars
  <2>3. StageMsg(i, s) \in Message /\ StageMsg(i, s).id = i
    BY Messages, MessageTypes DEF Stages
  <2>4. /\ Holds("Encode", i) /\ ~Inboxed(i) /\ \A k : Inboxed(k)' <=> Inboxed(k)
    BY <1>2, <2>1, <2>2 DEF InboxedOnce, Holds, Inboxed
  <2>5. Once(inbox')
    BY <1>2, <2>2 DEF InboxedOnce
  <2> QED
    BY <1>3, <2>2, <2>3, <2>4, <2>5
<1> QED
  BY <1>4, <1>5 DEF EncoderNext

\* No step of a layer brings a job to a layer that it was not with.
LEMMA WorkersMove ==
  ASSUME LayersTypeOK, Places, WorkersNext
  PROVE  Places' /\ \A l \in Layers, k \in Ids : With(l, k)' => With(l, k)
<1> DEFINE Goal == Places' /\ \A l \in Layers, k \in Ids : With(l, k)' => With(l, k)
<1>1. ASSUME NEW p \in Pools, NEW i \in Ids, FetchTorrent(p, i) PROVE Goal
  <2>1. AssignMsg(i) \in Message /\ AssignMsg(i).id = i /\ ~Ends(AssignMsg(i))
    BY Messages, MessageTypes
  <2>2. /\ Tasked(p, i) /\ Task(p, i, "fetched") /\ ret' = ret
        /\ UNCHANGED <<pend, inbox, cur>>
    BY <1>1 DEF FetchTorrent, Tasked, encVars
  <2> QED
    BY <2>1, <2>2, TaskGoesOn
<1>2. ASSUME NEW i \in Ids, LockTorrent(i) PROVE Goal
  <2>1. AssignMsg(i) \in Message /\ AssignMsg(i).id = i /\ ~Ends(AssignMsg(i))
    BY Messages, MessageTypes
  <2>2. /\ Tasked("Download", i) /\ Task("Download", i, "locked") /\ ret' = ret
        /\ UNCHANGED <<pend, inbox, cur>> /\ "Download" \in Pools
    BY <1>2 DEF LockTorrent, AtLock, Tasked, encVars, Pools
  <2> QED
    BY <2>1, <2>2, TaskGoesOn
<1>3. ASSUME NEW i \in Ids, TorrentLocked(i) PROVE Goal
  <2>1. PICK o \in LockHolders(i) : PoolEnd("Download", i, DuplicateMsg(i, o))
    BY <1>3 DEF TorrentLocked
  <2>2. /\ DuplicateMsg(i, o) \in Message /\ DuplicateMsg(i, o).id = i
        /\ "Download" \in Pools
    BY Messages, MessageTypes, PnJobsAssumption DEF LockHolders, Ids, Ids0, Pools
  <2> QED
    BY <2>1, <2>2, PoolEndMoves
<1>4. ASSUME NEW i \in Known, FileDone(i) PROVE Goal
  <2>1. PICK f \in Entries(born[i]) \ delivered[i] : ret' = TrySent("Download", FileDoneMsg(i, f))
    BY <1>4 DEF FileDone
  <2>2. i \in Ids /\ f \in Idx
    BY BornOfRequest DEF Known, LayersTypeOK, Entries, Request, Idx
  <2>3. /\ FileDoneMsg(i, f) \in Message /\ FileDoneMsg(i, f).id = i
        /\ ~Ends(FileDoneMsg(i, f)) /\ "Download" \in Pools
    BY <2>2, Messages, MessageTypes DEF Pools
  <2>4. /\ Tasked("Download", i) /\ UNCHANGED <<pend, run, inbox, cur>>
        /\ ret' = ret \/ ret' = Sent("Download", FileDoneMsg(i, f))
    BY <1>4, <2>1 DEF FileDone, Transferring, Tasked, encVars, TrySent
  <2> QED
    BY <2>2, <2>3, <2>4, TaskGoesOn
<1>5. ASSUME NEW p \in Pools, NEW i \in Ids, PoolStep(p, i) PROVE Goal
  <2>1. \A s \in Stages : StageMsg(i, s) \in Message /\ StageMsg(i, s).id = i
    BY Messages, MessageTypes
  <2>2. \E s \in Stages : PoolEnd(p, i, StageMsg(i, s))
    BY <1>5 DEF PoolStep, PoolDone, PoolFailed, PoolCancelled, Download, ProbeResult, Stages
  <2> QED
    BY <2>1, <2>2, PoolEndMoves
<1>6. ASSUME NEW i \in Ids, PreviewStart(i) PROVE Goal
  <2>1. /\ StageMsg(i, "Encoding") \in Message /\ StageMsg(i, "Encoding").id = i
        /\ ~Ends(StageMsg(i, "Encoding")) /\ "Probe" \in Pools
    BY Messages, MessageTypes DEF Pools, Stages
  <2>2. /\ Tasked("Probe", i) /\ Task("Probe", i, "locked")
        /\ ret' = Sent("Probe", StageMsg(i, "Encoding"))
        /\ UNCHANGED <<pend, inbox, cur>>
    BY <1>6 DEF PreviewStart, Tasked, encVars
  <2> QED
    BY <2>1, <2>2, TaskGoesOn
<1> QED
  BY <1>1, <1>2, <1>3, <1>4, <1>5, <1>6, EncoderMoves, PoolStartMoves
     DEF WorkersNext, PoolNext, DownloadStep, Known

-----------------------------------------------------------------------------
(* What the loop knows of the jobs that are with a layer *)

\* What Fits reads of a record.
Lease(j) == <<j.ready, j.fwd, j.dup, j.dispatched, j.epoch>>

\* A job whose record and layer stay fits as it did.
LEMMA FitsStill ==
  ASSUME NEW l \in Layers, NEW k, Fits(l, k), born'[k] = born[k],
         job'[k].ready = job[k].ready, job'[k].fwd = job[k].fwd, job'[k].dup = job[k].dup,
         l = "Encode" => /\ job'[k].dispatched = job[k].dispatched
                         /\ job'[k].epoch = job[k].epoch /\ epoch' = epoch
  PROVE  Fits(l, k)'
<1>1. Batch(k)' = Batch(k) /\ Type(k)' = Type(k)
  BY DEF Batch, Type
<1> QED
  BY <1>1 DEF Fits

\* Whoever is with a layer was there before with the same lease, or fits anew.
LEMMA ServedStill ==
  ASSUME Typed, Served,
         \A l \in Layers, k \in queue' : With(l, k)' =>
           \/ Fits(l, k)'
           \/ /\ k \in queue /\ With(l, k)
              /\ Lease(job'[k]) = Lease(job[k]) /\ born'[k] = born[k]
              /\ l = "Encode" => epoch' = epoch
  PROVE  Served'
<1> SUFFICES ASSUME NEW l \in Layers, NEW k \in queue', With(l, k)' PROVE Fits(l, k)'
  BY DEF Served
<1>1. SUFFICES ASSUME k \in queue, With(l, k), Lease(job'[k]) = Lease(job[k]),
                      born'[k] = born[k], l = "Encode" => epoch' = epoch
               PROVE  Fits(l, k)'
  OBVIOUS
<1>2. Fits(l, k)
  BY <1>1 DEF Served
<1>3. /\ job'[k].ready = job[k].ready /\ job'[k].fwd = job[k].fwd
      /\ job'[k].dup = job[k].dup /\ job'[k].dispatched = job[k].dispatched
      /\ job'[k].epoch = job[k].epoch
  BY <1>1 DEF Lease
<1> QED
  BY <1>1, <1>2, <1>3, FitsStill

\* Checking the epoch takes no lease back from a job that is with a layer: the
\* lease of one that is with the encoder is of this epoch.
LEMMA ServedChecked ==
  ASSUME Typed, Served, NEW jobs \in Jobs, NEW e, job' = Checked(jobs, e),
         \A l \in Layers, k \in queue' : With(l, k)' =>
           /\ k \in queue /\ With(l, k)
           /\ Lease(jobs[k]) = Lease(job[k]) /\ born'[k] = born[k]
           /\ l = "Encode" => e = epoch /\ epoch' = epoch
  PROVE  Served'
<1> SUFFICES ASSUME NEW l \in Layers, NEW k \in queue', With(l, k)' PROVE Fits(l, k)'
  BY DEF Served
<1>1. /\ k \in queue /\ With(l, k) /\ Lease(jobs[k]) = Lease(job[k])
      /\ born'[k] = born[k] /\ (l = "Encode" => e = epoch /\ epoch' = epoch)
  OBVIOUS
<1>2. Fits(l, k)
  BY <1>1 DEF Served
<1>3. k \in Ids /\ jobs[k] \in Job
  BY <1>1 DEF Typed, TypeOK, Jobs
<1>4. /\ jobs[k].ready = job[k].ready /\ jobs[k].fwd = job[k].fwd
      /\ jobs[k].dup = job[k].dup /\ jobs[k].dispatched = job[k].dispatched
      /\ jobs[k].epoch = job[k].epoch
  BY <1>1 DEF Lease
<1>5. \/ job'[k] = jobs[k]
      \/ /\ job'[k] = [jobs[k] EXCEPT !.dispatched = FALSE]
         /\ jobs[k].epoch < e
         /\ jobs[k].ready = "Downloaded" \/ (Type(k) = "Keycode" /\ jobs[k].ready = "Queued")
  BY <1>3 DEF Checked, ResetDispatch, Type
<1>6. /\ job'[k].ready = job[k].ready /\ job'[k].fwd = job[k].fwd /\ job'[k].dup = job[k].dup
      /\ job'[k].epoch = job[k].epoch
  BY <1>3, <1>4, <1>5 DEF Job
<1>7. ASSUME l = "Encode" PROVE job'[k] = jobs[k]
  <2>1. epoch \in Nat
    BY DEF Typed, TypeOK, LayersTypeOK
  <2>2. jobs[k].ready \in {"Downloaded", "Queued"} => jobs[k].epoch = epoch
    BY <1>2, <1>4, <1>7 DEF Fits
  <2> QED
    BY <1>1, <1>5, <1>7, <2>1, <2>2
<1> QED
  BY <1>1, <1>2, <1>4, <1>6, <1>7, FitsStill

\* No id is new to the layers but one that was handed out and is not admitted.
LEMMA FreshStill ==
  ASSUME Typed, Fresh, nextId' \in Nat, nextId <= nextId', NEW i, i \in Ids => i < nextId',
         pc' # "admit",
         \A l \in Layers, k \in Ids : With(l, k)' => With(l, k) \/ k = i
  PROVE  Fresh'
<1>1. nextId \in Nat /\ \A k \in Ids : k \in Nat
  BY PnJobsAssumption DEF Typed, TypeOK, Ids
<1> QED
  BY <1>1 DEF Fresh

\* Back at the top, or anywhere but in the first two walks, no walk is under way.
LEMMA NoWalk == pc' \notin {"dup", "wait"} => WalksHold'
  BY DEF WalksHold

\* A step of the loop that leaves the layers, the ids and the epoch alone, and
\* goes back to the top with the leases it found.
LEMMA TopPlaces ==
  ASSUME Typed, PlacesInv, NEW jobs \in Jobs, BackToTop(jobs),
         UNCHANGED <<pend, run, inbox, cur, ret, epoch, nextId, born>>,
         \A k \in queue' : (\E l \in Layers : With(l, k)) =>
           k \in queue /\ Lease(jobs[k]) = Lease(job[k])
  PROVE  PlacesInv'
<1>1. /\ Places' /\ \A l \in Layers, k \in Ids : With(l, k)' => With(l, k)
  BY NothingSent DEF PlacesInv
<1>2. queue' \subseteq Ids => \A l \in Layers, k \in queue' : With(l, k)' => With(l, k)
  BY <1>1
<1>3. job' = Checked(jobs, epoch) /\ pc' = "queue"
  BY DEF BackToTop
<1>4. \A l \in Layers : \A k : With(l, k)' <=> With(l, k)
  <2>1. \A l \in Layers : Still(l)
    BY DEF Still
  <2> QED
    BY <2>1, StillThere
<1>5. Served'
  BY <1>3, <1>4, ServedChecked DEF PlacesInv
<1>6. nextId \in Nat /\ 0 \notin Ids
  BY PnJobsAssumption DEF Typed, TypeOK, Ids
<1>7. Fresh'
  BY <1>1, <1>3, <1>6, FreshStill DEF PlacesInv
<1> QED
  BY <1>1, <1>3, <1>5, <1>7, NoWalk DEF PlacesInv

-----------------------------------------------------------------------------
(* Requests: a job gets its first worker *)

\* A request that is prepared gets an id that no layer has heard of.
LEMMA SubmitPlaces ==
  ASSUME Typed, PlacesInv, NEW n \in Names, Submit(n)
  PROVE  PlacesInv'
<1>1. CASE Refuse(n) \/ DeclineSetup(n)
  <2>1. /\ BackToTop(job) /\ queue' = queue /\ job \in Jobs
        /\ UNCHANGED <<pend, run, inbox, cur, ret, epoch, nextId, born>>
    BY <1>1 DEF Refuse, DeclineSetup, layerVars, Typed, TypeOK, Jobs
  <2> QED
    BY <2>1, TopPlaces
<1>2. CASE Prepare(n)
  <2>1. /\ UNCHANGED <<pend, run, inbox, cur, ret, epoch, queue, job>>
        /\ nextId \in Ids /\ nextId' = nextId + 1
        /\ \A k \in Ids \ {nextId} : born'[k] = born[k]
        /\ pc' = "admit" /\ pass'.todo = {nextId}
    BY <1>2 DEF Prepare, poolVars, encVars, NoPass, Typed, TypeOK, LayersTypeOK
  <2>2. nextId \in Nat /\ \A k \in Ids : k \in Nat
    BY <2>1, PnJobsAssumption DEF Ids
  <2>3. Places' /\ \A l \in Layers, k \in Ids : With(l, k)' => With(l, k)
    BY <2>1, NothingSent DEF PlacesInv
  <2>4. \A l \in Layers, k \in Ids : With(l, k)' => k < nextId
    BY <2>3 DEF PlacesInv, Fresh
  <2>5. Fresh'
    <3> SUFFICES ASSUME NEW l \in Layers, NEW k \in Ids, With(l, k)'
                 PROVE  k < nextId' /\ ~(pc' = "admit" /\ k \in pass'.todo)
      BY DEF Fresh
    <3>1. k < nextId
      BY <2>4
    <3>2. k < nextId' /\ k # nextId
      BY <2>1, <2>2, <3>1
    <3> QED
      BY <2>1, <3>2
  <2>6. \A l \in Layers, k \in queue' : With(l, k)' =>
          /\ k \in queue /\ With(l, k) /\ Lease(job'[k]) = Lease(job[k]) /\ born'[k] = born[k]
    <3> SUFFICES ASSUME NEW l \in Layers, NEW k \in queue', With(l, k)'
                 PROVE  /\ k \in queue /\ With(l, k)
                        /\ Lease(job'[k]) = Lease(job[k]) /\ born'[k] = born[k]
      OBVIOUS
    <3>1. k \in queue /\ k \in Ids
      BY <2>1 DEF Typed, TypeOK
    <3>2. k \in Ids \ {nextId} /\ With(l, k)
      BY <2>2, <2>3, <2>4, <3>1
    <3> QED
      BY <2>1, <3>1, <3>2 DEF Lease
  <2>7. Served'
    BY <2>1, <2>6, ServedStill DEF PlacesInv
  <2> QED
    BY <2>1, <2>3, <2>5, <2>7, NoWalk DEF PlacesInv
<1> QED
  BY <1>1, <1>2 DEF Submit

\* A job that was sent to a layer, or to none, joins the queue, or leaves what
\* was sent for it behind when its row is refused.
LEMMA PushPlaces ==
  ASSUME Typed, RowsInv, PlacesInv, pc = "admit", NEW i \in pass.todo, i \in Ids,
         NEW j \in Job, NEW d, Push(i, j, epoch', d), UNCHANGED <<born, nextId>>,
         Places', NEW x \in Layers,
         \A l \in Layers, k \in Ids : With(l, k)' => With(l, k) \/ (l = x /\ k = i),
         epoch' = epoch \/ \A k \in Ids : With("Encode", k)' => k = i,
         With(x, i)' /\ job'[i] = j => Fits(x, i)'
  PROVE  PlacesInv'
<1>1. /\ i < nextId /\ i \notin queue /\ nextId \in Nat
      /\ \A l \in Layers : ~With(l, i)
  BY PnJobsAssumption DEF RowsInv, AdmittedIsNew, PlacesInv, Fresh, Typed, TypeOK
<1>2. job \in Jobs /\ queue \subseteq Ids
  BY DEF Typed, TypeOK, Jobs
<1>3. pc' \in {"message", "queue"}
  BY DEF Push
<1>4. Fresh'
  BY <1>1, <1>3, FreshStill DEF PlacesInv
<1>5. ASSUME NEW k \in queue, NEW l \in Layers, With(l, k)'
      PROVE  k # i /\ With(l, k) /\ (l = "Encode" => epoch' = epoch)
  BY <1>1, <1>2, <1>5
<1>6. CASE queue' = queue \cup {i} /\ job' = [job EXCEPT ![i] = j]
  <2>1. job'[i] = j /\ \A k \in queue : k # i => job'[k] = job[k]
    BY <1>2, <1>6 DEF Jobs
  <2>2. \A l \in Layers, k \in queue' : With(l, k)' =>
          \/ Fits(l, k)'
          \/ /\ k \in queue /\ With(l, k)
             /\ Lease(job'[k]) = Lease(job[k]) /\ born'[k] = born[k]
             /\ l = "Encode" => epoch' = epoch
    <3> SUFFICES ASSUME NEW l \in Layers, NEW k \in queue', With(l, k)', ~Fits(l, k)'
                 PROVE  /\ k \in queue /\ With(l, k)
                        /\ Lease(job'[k]) = Lease(job[k]) /\ born'[k] = born[k]
                        /\ l = "Encode" => epoch' = epoch
      OBVIOUS
    <3>1. k # i
      BY <1>1, <2>1
    <3>2. k \in queue
      BY <1>6, <3>1
    <3> QED
      BY <1>5, <2>1, <3>1, <3>2 DEF Lease
  <2>3. Served'
    BY <2>2, ServedStill DEF PlacesInv
  <2> QED
    BY <1>3, <1>4, <2>3, NoWalk DEF PlacesInv
<1>7. CASE queue' = queue /\ job' = Checked(job, epoch')
  <2>1. \A l \in Layers, k \in queue' : With(l, k)' =>
          /\ k \in queue /\ With(l, k)
          /\ Lease(job[k]) = Lease(job[k]) /\ born'[k] = born[k]
          /\ l = "Encode" => epoch' = epoch
    BY <1>5, <1>7
  <2> DEFINE e == epoch'
  <2>2. \A l \in Layers, k \in queue' : With(l, k)' =>
          /\ k \in queue /\ With(l, k)
          /\ Lease(job[k]) = Lease(job[k]) /\ born'[k] = born[k]
          /\ l = "Encode" => e = epoch /\ epoch' = epoch
    BY <2>1
  <2>3. job' = Checked(job, e)
    BY <1>7
  <2> HIDE DEF e
  <2>4. Served'
    BY <1>2, <2>2, <2>3, ServedChecked DEF PlacesInv
  <2> QED
    BY <1>3, <1>4, <2>4, NoWalk DEF PlacesInv
<1> QED
  BY <1>6, <1>7 DEF Push

\* What an admitted job is sent to fits it, wherever its download is routed.
LEMMA AdmitPlaces ==
  ASSUME Typed, RowsInv, PlacesInv, Admit
  PROVE  PlacesInv'
<1>1. PICK i \in pass.todo :
        \/ AdmitForwarded(i) \/ AdmitKilled(i) \/ AdmitDownload(i) \/ AdmitProbe(i)
        \/ AdmitStudio(i) \/ AdmitKeycode(i)
  BY DEF Admit
<1>2. pc = "admit" /\ UNCHANGED <<born, nextId>>
  BY DEF Admit
<1>3. i \in Ids /\ i \in Known
  BY DEF Typed, TypeOK, Pass, Known
<1>4. i \notin queue /\ \A l \in Layers : ~With(l, i)
  BY <1>2, <1>3 DEF RowsInv, AdmittedIsNew, PlacesInv, Fresh
<1>5. LayersTypeOK /\ Places /\ "Download" \in Pools /\ "Probe" \in Pools
      /\ Pools \subseteq Layers /\ "Encode" \in Layers
  BY DEF Typed, TypeOK, PlacesInv, Pools, Layers
<1>6. \A w \in Workers : [NewJob EXCEPT !.worker = w] \in Job
  BY NewJobType, JobUpdates
<1>7. CASE AdmitForwarded(i)
  <2> DEFINE j == Forwarded(NewJob, First(QueuedParents(i)))
  <2>1. /\ BackToTop([job EXCEPT ![i] = j]) /\ queue' = queue \cup {i}
        /\ UNCHANGED <<pend, run, inbox, cur, ret, epoch>>
    BY <1>7 DEF AdmitForwarded, poolVars, encVars
  <2>2. j \in Job
    <3>1. QueuedParents(i) \in SUBSET Ids /\ QueuedParents(i) # {}
      BY <1>7 DEF AdmitForwarded, QueuedParents, Typed, TypeOK
    <3>2. First(QueuedParents(i)) \in Ids
      BY <3>1, FirstIn
    <3> QED
      BY <3>2, NewJobType, ForwardedType DEF Typed
  <2> HIDE DEF j
  <2>3. [job EXCEPT ![i] = j] \in Jobs /\ \A k \in Ids \ {i} : [job EXCEPT ![i] = j][k] = job[k]
    BY <2>2 DEF Typed, TypeOK, Jobs
  <2>4. \A k \in queue' : (\E l \in Layers : With(l, k)) =>
          k \in queue /\ Lease([job EXCEPT ![i] = j][k]) = Lease(job[k])
    BY <1>4, <2>1, <2>3 DEF Lease, Typed, TypeOK
  <2> QED
    BY <1>2, <2>1, <2>3, <2>4, TopPlaces
<1>8. CASE AdmitKilled(i)
  <2>1. /\ BackToTop(job) /\ queue' = queue /\ job \in Jobs
        /\ UNCHANGED <<pend, run, inbox, cur, ret, epoch>>
    BY <1>8 DEF AdmitKilled, poolVars, encVars, Typed, TypeOK, Jobs
  <2> QED
    BY <1>2, <2>1, TopPlaces
<1>9. CASE AdmitDownload(i)
  <2> DEFINE j == Routed(i, [NewJob EXCEPT !.worker = "dwl-pending"])
             d == RoutedDisk(i)
  <2>1. /\ RouteSend(i) /\ Push(i, j, epoch', d)
        /\ UNCHANGED <<run, inbox, cur, epoch, ret>>
    BY <1>9 DEF AdmitDownload, encVars
  <2>2. j \in Job
    BY <1>3, <1>6, RoutedType DEF Workers
  <2>3. RouteOf(i) = "download" => j.ready = "Downloading" /\ j.dup = 0 /\ j.fwd = 0
    BY DEF Routed, NewJob
  <2>4. /\ Places'
        /\ \A l \in Layers, k \in Ids : With(l, k)' => With(l, k) \/ (l = "Download" /\ k = i)
        /\ With("Download", i)' => RouteOf(i) = "download"
    <3>1. CASE RouteOf(i) = "download"
      BY <1>3, <1>4, <1>5, <2>1, <3>1, SentToPool DEF RouteSend
    <3>2. CASE RouteOf(i) # "download"
      BY <1>3, <1>4, <1>5, <2>1, <3>2, NothingSent DEF RouteSend
    <3> QED
      BY <3>1, <3>2
  <2> HIDE DEF j, d
  <2>5. With("Download", i)' /\ job'[i] = j => Fits("Download", i)'
    BY <2>3, <2>4 DEF Fits
  <2> QED
    BY <1>2, <1>3, <1>5, <2>1, <2>2, <2>4, <2>5, PushPlaces
<1>10. CASE AdmitProbe(i)
  <2> DEFINE j == [NewJob EXCEPT !.worker = "prw-pending",
                     !.ready = IF Type(i) = "Probe" THEN "Probing" ELSE "Encoding"]
  <2>1. /\ PoolSend("Probe", i) /\ Push(i, j, epoch', disk)
        /\ UNCHANGED <<run, inbox, cur, epoch, ret>>
    BY <1>10 DEF AdmitProbe, encVars
  <2>2. j \in Job /\ j.fwd = 0 /\ j.ready \in {"Probing", "Encoding"}
    <3>1. j \in Job
      BY NewJobType DEF Job, Workers, Stages
    <3> QED
      BY <3>1 DEF NewJob
  <2>3. /\ Places'
        /\ \A l \in Layers, k \in Ids : With(l, k)' => With(l, k) \/ (l = "Probe" /\ k = i)
    BY <1>3, <1>4, <1>5, <2>1, SentToPool
  <2> HIDE DEF j
  <2>4. With("Probe", i)' /\ job'[i] = j => Fits("Probe", i)'
    BY <2>2 DEF Fits
  <2> QED
    BY <1>2, <1>3, <1>5, <2>1, <2>2, <2>3, <2>4, PushPlaces
<1>11. CASE AdmitStudio(i)
  <2> DEFINE j == [NewJob EXCEPT !.worker = "enc-main", !.ready = "Encoding", !.dispatched = TRUE]
  <2>1. /\ EncodeSend(i) /\ Push(i, j, epoch', disk) /\ UNCHANGED <<pend, run>>
        /\ Type(i) = "Studio"
    BY <1>11 DEF AdmitStudio, poolVars
  <2>2. j \in Job /\ j.fwd = 0 /\ j.ready = "Encoding" /\ j.dispatched
    <3>1. j \in Job
      BY NewJobType DEF Job, Workers, Stages
    <3> QED
      BY <3>1 DEF NewJob
  <2>3. /\ Places'
        /\ \A l \in Layers, k \in Ids : With(l, k)' => With(l, k) \/ (l = "Encode" /\ k = i)
        /\ \/ epoch' = epoch
           \/ \A k \in Ids : With("Encode", k)' => k = i
    BY <1>3, <1>4, <1>5, <2>1, SentToEncoder
  <2> HIDE DEF j
  <2>4. Type(i)' = "Studio" /\ ~Batch(i)'
    BY <1>2, <2>1 DEF Type, TypeOf, Batch, IsBatch
  <2>5. With("Encode", i)' /\ job'[i] = j => Fits("Encode", i)'
    BY <2>2, <2>4 DEF Fits
  <2> QED
    BY <1>2, <1>3, <1>5, <2>1, <2>2, <2>3, <2>5, PushPlaces
<1>12. CASE AdmitKeycode(i)
  <2> DEFINE j == [NewJob EXCEPT !.worker = "key-wait"]
  <2>1. /\ Push(i, j, epoch', disk) /\ UNCHANGED <<pend, run, inbox, cur, epoch, ret>>
    BY <1>12 DEF AdmitKeycode, poolVars, encVars
  <2>2. j \in Job
    BY <1>6 DEF Workers
  <2>3. /\ Places'
        /\ \A l \in Layers, k \in Ids : With(l, k)' => With(l, k)
    BY <1>5, <2>1, NothingSent
  <2> HIDE DEF j
  <2>4. With("Encode", i)' /\ job'[i] = j => Fits("Encode", i)'
    BY <1>3, <1>4, <1>5, <2>3
  <2>5. \A l \in Layers, k \in Ids : With(l, k)' => With(l, k) \/ (l = "Encode" /\ k = i)
    BY <2>3
  <2> QED
    BY <1>2, <1>3, <1>5, <2>1, <2>2, <2>3, <2>4, <2>5, PushPlaces
<1> QED
  BY <1>1, <1>7, <1>8, <1>9, <1>10, <1>11, <1>12

-----------------------------------------------------------------------------
(* Cancellations, git queries and clocks *)

\* A step that leaves the layers, the ids and the epoch alone, and the leases of
\* the jobs that are with a layer.
LEMMA QuietPlaces ==
  ASSUME Typed, PlacesInv, pc' \notin {"admit", "dup", "wait"},
         UNCHANGED <<pend, run, inbox, cur, ret, epoch, nextId, born>>,
         \A k \in queue' : (\E l \in Layers : With(l, k)) =>
           k \in queue /\ Lease(job'[k]) = Lease(job[k])
  PROVE  PlacesInv'
<1>1. Places' /\ \A l \in Layers, k \in Ids : With(l, k)' => With(l, k)
  BY NothingSent DEF PlacesInv
<1>2. \A l \in Layers : \A k : With(l, k)' <=> With(l, k)
  <2>1. \A l \in Layers : Still(l)
    BY DEF Still
  <2> QED
    BY <2>1, StillThere
<1>3. Served'
  BY <1>2, ServedStill DEF PlacesInv
<1>4. nextId \in Nat /\ 0 \notin Ids
  BY PnJobsAssumption DEF Typed, TypeOK, Ids
<1>5. Fresh'
  BY <1>1, <1>4, FreshStill DEF PlacesInv
<1> QED
  BY <1>1, <1>3, <1>5, NoWalk DEF PlacesInv

\* The jobs that stay keep their records when others leave.
LEMMA WithoutKeeps ==
  \A jobs, R : \A k \in Ids : k \notin R => Without(jobs, R)[k] = jobs[k]
  BY DEF Without

\* A batch is told how its children ended, and what they are given stays.
LEMMA BatchToldLease ==
  ASSUME NEW jobs \in Jobs, NEW K, NEW s, NEW k \in Ids
  PROVE  Lease(BatchTold(jobs, K, s)[k]) = Lease(jobs[k])
<1>1. jobs[k] \in Job
  BY DEF Jobs
<1>2. LET b == BatchTold(jobs, K, s)[k] IN
      /\ b.ready = jobs[k].ready /\ b.fwd = jobs[k].fwd /\ b.dup = jobs[k].dup
      /\ b.dispatched = jobs[k].dispatched /\ b.epoch = jobs[k].epoch
  BY <1>1 DEF BatchTold, Job
<1> QED
  BY <1>2 DEF Lease

\* Cancelling gives no job to a layer.
LEMMA CancelPlaces ==
  ASSUME Typed, PlacesInv, NEW i \in Ids, Cancel(i)
  PROVE  PlacesInv'
<1>1. /\ pc' = "message"
      /\ UNCHANGED <<pend, run, inbox, cur, ret, epoch, nextId, born>>
  BY DEF Cancel, poolVars, encVars
<1>2. \/ UNCHANGED <<queue, job>>
      \/ \E R : queue' = queue \ R /\ job' = Without(job, R)
  BY DEF Cancel, FinalizeCancelled
<1>3. \A k \in queue' : k \in queue /\ job'[k] = job[k]
  BY <1>2, WithoutKeeps DEF Typed, TypeOK
<1> QED
  BY <1>1, <1>3, QuietPlaces DEF Lease

\* A turn without a request neither.
LEMMA NoRequestPlaces ==
  ASSUME Typed, PlacesInv, NoRequest
  PROVE  PlacesInv'
<1>1. /\ pc' = "message" /\ UNCHANGED <<queue, job>>
      /\ UNCHANGED <<pend, run, inbox, cur, ret, epoch, nextId, born>>
  BY DEF NoRequest, layerVars
<1> QED
  BY <1>1, QuietPlaces DEF Lease

\* What ends the process leaves nothing with a layer.
LEMMA GitPlaces ==
  ASSUME Typed, PlacesInv, GitQuery \/ ArmedGitQuery
  PROVE  PlacesInv'
<1>1. CASE GitSync
  <2>1. /\ pc' = "exited" /\ inbox' = <<>> /\ cur' = 0 /\ 0 \notin Ids
        /\ \A l \in Layers : ret'[l] = <<>>
        /\ \A p \in Pools : pend'[p] = <<>> /\ \A k \in Ids : run'[p][k] = "idle"
    BY <1>1, PnJobsAssumption DEF GitSync, Ids
  <2>2. \A l \in Layers : l # "Encode" => l \in Pools
    BY DEF Layers
  <2>3. \A l \in Layers, k \in Ids : ~With(l, k)' /\ ~Holds(l, k)'
    BY <2>1, <2>2, NothingSaid DEF With, Holds, Pending, Tasked, Inboxed, Told
  <2>4. \A l \in Layers : LetsGo(l)'
    BY <2>1, <2>3, NothingSaid DEF LetsGo
  <2>5. InboxedOnce' /\ \A l \in Layers : l # "Encode" => PendingOnce(l)'
    BY <2>1, <2>2, NothingSaid DEF InboxedOnce, PendingOnce, Inboxed, Pending
  <2>6. Places'
    BY <2>3, <2>4, <2>5 DEF Places, OneLayer, Orderly
  <2>7. Served' /\ Fresh'
    BY <1>1, <2>3 DEF Served, Fresh, GitSync
  <2> QED
    BY <2>1, <2>6, <2>7, NoWalk DEF PlacesInv
<1>2. CASE UNCHANGED <<queue, job, layerVars, nextId>> /\ pc' = "message"
  <2>1. UNCHANGED <<pend, run, inbox, cur, ret, epoch, nextId, born>>
    BY <1>2 DEF layerVars
  <2> QED
    BY <1>2, <2>1, QuietPlaces DEF Lease
<1>3. CASE UNCHANGED <<queue, layerVars, nextId>> /\ BackToTop(job)
  <2>1. /\ UNCHANGED <<pend, run, inbox, cur, ret, epoch, nextId, born>>
        /\ job \in Jobs
    BY <1>3 DEF layerVars, Typed, TypeOK, Jobs
  <2> QED
    BY <1>3, <2>1, TopPlaces
<1> QED
  BY <1>1, <1>2, <1>3 DEF GitQuery, ArmedGitQuery

\* A reboot leaves no job with the encoder, whatever the loop makes of it.
LEMMA ClockPlaces ==
  ASSUME Typed, PlacesInv, ClockStep
  PROVE  PlacesInv'
<1>1. job \in Jobs /\ LayersTypeOK /\ Places /\ queue \subseteq Ids /\ nextId \in Nat
      /\ 0 \notin Ids /\ epoch \in Nat
  BY PnJobsAssumption DEF Typed, TypeOK, LayersTypeOK, Jobs, PlacesInv, Ids
<1>2. CASE ExpireCache \/ ExpireKeep
  <2>1. /\ pc' = "queue" /\ UNCHANGED <<queue, job>>
        /\ UNCHANGED <<pend, run, inbox, cur, ret, epoch, nextId, born>>
    BY <1>2 DEF ExpireCache, ExpireKeep, mainVars, layerVars, poolVars, encVars
  <2> QED
    BY <2>1, QuietPlaces DEF Lease
<1>3. ASSUME NEW i \in Ids, ProbeTimeout(i) PROVE PlacesInv'
  <2>1. /\ pc' = "message" /\ queue' = queue \ {i} /\ job' = Without(job, {i})
        /\ UNCHANGED <<pend, run, inbox, cur, ret, epoch, nextId, born>>
    BY <1>3 DEF ProbeTimeout, poolVars, encVars
  <2>2. \A k \in queue' : k \in queue /\ job'[k] = job[k]
    BY <1>1, <2>1, WithoutKeeps
  <2> QED
    BY <2>1, <2>2, QuietPlaces DEF Lease
\* with the encoder rebooted, and the loop not in a walk
<1>4. ASSUME EncodeReboot(<<>>), UNCHANGED <<pend, run, born, nextId>>,
             pc' \notin {"admit", "dup", "wait"}
      PROVE  /\ Places' /\ Fresh' /\ WalksHold'
             /\ \A l \in Layers, k \in Ids : With(l, k)' => With(l, k) /\ l # "Encode"
  <2> DEFINE s == <<>>
  <2>1. s \in Seq(Ids) /\ EncodeReboot(s) /\ s = <<>> /\ \A k : ~InSeq(k, s)
    BY <1>4, NothingSaid
  <2> HIDE DEF s
  <2>2. /\ Places'
        /\ \A k \in Ids : With("Encode", k)' <=> InSeq(k, s)
        /\ \A l \in Layers, k \in Ids : With(l, k)' => With(l, k) \/ (l = "Encode" /\ InSeq(k, s))
    BY <1>1, <1>4, <2>1, Rebooted
  <2>3. \A l \in Layers, k \in Ids : With(l, k)' => With(l, k) /\ l # "Encode"
    BY <2>1, <2>2
  <2>4. Fresh'
    BY <1>1, <1>4, <2>3, FreshStill DEF PlacesInv
  <2> QED
    BY <1>4, <2>2, <2>3, <2>4, NoWalk
<1>5. CASE DrainReboot
  <2>1. /\ EncodeReboot(<<>>) /\ UNCHANGED <<pend, run, born, nextId, queue>>
        /\ pc' = "queue" /\ job' = Checked(job, epoch + 1)
    BY <1>5 DEF DrainReboot, poolVars
  <2>2. /\ Places' /\ Fresh' /\ WalksHold'
        /\ \A l \in Layers, k \in Ids : With(l, k)' => With(l, k) /\ l # "Encode"
    BY <1>4, <2>1
  <2>3. \A l \in Layers, k \in queue' : With(l, k)' =>
          /\ k \in queue /\ With(l, k)
          /\ Lease(job[k]) = Lease(job[k]) /\ born'[k] = born[k]
          /\ l = "Encode" => epoch + 1 = epoch /\ epoch' = epoch
    BY <1>1, <2>1, <2>2
  <2>4. Served'
    BY <1>1, <2>1, <2>3, ServedChecked DEF PlacesInv
  <2> QED
    BY <2>2, <2>4 DEF PlacesInv
<1>6. CASE ReceiveReboot
  <2>1. /\ EncodeReboot(<<>>) /\ UNCHANGED <<pend, run, born, nextId, queue, job>>
        /\ pc' = "message"
    BY <1>6 DEF ReceiveReboot, poolVars
  <2>2. /\ Places' /\ Fresh' /\ WalksHold'
        /\ \A l \in Layers, k \in Ids : With(l, k)' => With(l, k) /\ l # "Encode"
    BY <1>4, <2>1
  <2>3. Served'
    BY <1>1, <2>1, <2>2, ServedStill DEF PlacesInv, Lease
  <2> QED
    BY <2>2, <2>3 DEF PlacesInv
<1>7. ASSUME NEW S \in SUBSET Ids, EncodeStall(S) PROVE PlacesInv'
  <2> DEFINE gone == S \cup ForwardedTo(S)
             told == BatchTold(job, S, "Failed")
             jobs == Without(told, gone)
  <2>1. /\ EncodeReboot(<<>>) /\ UNCHANGED <<pend, run, born, nextId>>
        /\ queue' = queue \ gone
        /\ pc' = "message" /\ job' = Checked(jobs, epoch + 1)
    BY <1>7 DEF EncodeStall, poolVars
  <2>2. /\ Places' /\ Fresh' /\ WalksHold'
        /\ \A l \in Layers, k \in Ids : With(l, k)' => With(l, k) /\ l # "Encode"
    BY <1>4, <2>1
  <2>3. jobs \in Jobs
    BY <1>1, BatchToldType, WithoutType
  <2>4. \A k \in Ids : Lease(told[k]) = Lease(job[k])
    BY <1>1, BatchToldLease
  <2> HIDE DEF gone, told
  <2>5. \A k \in queue' : k \in queue /\ Lease(jobs[k]) = Lease(job[k])
    BY <1>1, <2>1, <2>4, WithoutKeeps
  <2> HIDE DEF jobs
  <2>6. \A l \in Layers, k \in queue' : With(l, k)' =>
          /\ k \in queue /\ With(l, k)
          /\ Lease(jobs[k]) = Lease(job[k]) /\ born'[k] = born[k]
          /\ l = "Encode" => epoch + 1 = epoch /\ epoch' = epoch
    BY <1>1, <2>1, <2>2, <2>5
  <2>7. Served'
    BY <1>1, <2>1, <2>3, <2>6, ServedChecked DEF PlacesInv
  <2> QED
    BY <2>2, <2>7 DEF PlacesInv
<1> QED
  BY <1>2, <1>3, <1>5, <1>6, <1>7 DEF ClockStep

-----------------------------------------------------------------------------
(* What each layer can say *)

\* A layer announces the stages it works through, and no other.
StagesOf(l) ==
  CASE l = "Download" -> {"Downloaded", "Failed", "Cancelled"}
    [] l = "Upload"   -> {"Uploaded", "Failed", "Cancelled"}
    [] l = "Probe"    -> {"Encoding", "Probed", "Uploaded", "Failed", "Cancelled"}
    [] OTHER          -> {"Encoding", "Encoded", "Failed", "Cancelled"}
Says(l, m) ==
  /\ m.kind = "stage" => m.stage \in StagesOf(l)
  /\ m.kind = "assign" => l # "Encode"
  /\ m.kind \in {"filedone", "duplicate"} => l = "Download"
Speaks == \A l \in Layers : \A k \in DOMAIN ret[l] : Says(l, ret[l][k])

\* What is said next is one message more, one less, or nothing at all.
LEMMA SpeaksStill ==
  ASSUME LayersTypeOK, Speaks,
         \/ ret' = ret
         \/ \E l \in Layers, m \in Message : Says(l, m) /\ ret' = Sent(l, m)
         \/ \E l \in Layers : ret[l] # <<>> /\ Received(l)
         \/ \A l \in Layers : ret'[l] = ret[l] \/ ret'[l] = <<>>
  PROVE  Speaks'
<1>1. CASE ret' = ret
  BY <1>1 DEF Speaks
<1>2. ASSUME NEW l \in Layers, NEW m \in Message, Says(l, m), ret' = Sent(l, m)
      PROVE  Speaks'
  <2>1. /\ ret[l] \in Seq(Message) /\ ret'[l] = Append(ret[l], m)
        /\ \A x \in Layers \ {l} : ret'[x] = ret[x]
    BY <1>2 DEF LayersTypeOK, Sent
  <2>2. \A k \in DOMAIN ret'[l] : \/ k \in DOMAIN ret[l] /\ ret'[l][k] = ret[l][k]
                               \/ ret'[l][k] = m
    BY <2>1
  <2> QED
    BY <1>2, <2>1, <2>2 DEF Speaks
<1>3. ASSUME NEW l \in Layers, ret[l] # <<>>, Received(l) PROVE Speaks'
  <2>1. /\ ret[l] \in Seq(Message) /\ ret'[l] = Tail(ret[l])
        /\ \A x \in Layers \ {l} : ret'[x] = ret[x]
    BY <1>3 DEF LayersTypeOK, Received
  <2>2. \A k \in DOMAIN ret'[l] : k + 1 \in DOMAIN ret[l] /\ ret'[l][k] = ret[l][k + 1]
    BY <1>3, <2>1
  <2> QED
    BY <2>1, <2>2 DEF Speaks
<1>4. CASE \A l \in Layers : ret'[l] = ret[l] \/ ret'[l] = <<>>
  <2>1. DOMAIN <<>> = {}
    OBVIOUS
  <2> QED
    BY <1>4, <2>1 DEF Speaks
<1> QED
  BY <1>1, <1>2, <1>3, <1>4

\* The head of a channel is something its layer says.
LEMMA SaidFirst ==
  ASSUME LayersTypeOK, Speaks, NEW l \in Layers, ret[l] # <<>>
  PROVE  Says(l, Head(ret[l]))
<1>1. ret[l] \in Seq(Message)
  BY DEF LayersTypeOK
<1>2. 1 \in DOMAIN ret[l] /\ Head(ret[l]) = ret[l][1]
  BY <1>1
<1> QED
  BY <1>2 DEF Speaks

\* The layers say what is theirs to say.
LEMMA WorkersSpeak ==
  ASSUME LayersTypeOK, Speaks, WorkersNext
  PROVE  Speaks'
<1>1. \A i \in Ids, l \in Layers : \A s \in Stages :
        /\ StageMsg(i, s) \in Message
        /\ s \in StagesOf(l) => Says(l, StageMsg(i, s))
  BY MessageTypes DEF Says, StageMsg, Note
<1>2. \A i \in Ids, l \in Pools : AssignMsg(i) \in Message /\ Says(l, AssignMsg(i))
  BY MessageTypes DEF Says, AssignMsg, Note, Pools
<1>3. /\ \A i \in Ids, f \in Idx :
           FileDoneMsg(i, f) \in Message /\ Says("Download", FileDoneMsg(i, f))
      /\ \A i \in Ids, o \in Ids0 :
           DuplicateMsg(i, o) \in Message /\ Says("Download", DuplicateMsg(i, o))
  BY MessageTypes DEF Says, FileDoneMsg, DuplicateMsg, Note
<1>4. Pools \subseteq Layers /\ "Encode" \in Layers /\ "Download" \in Layers /\ "Probe" \in Layers
      /\ "Download" \in Pools /\ "Probe" \in Pools
  BY DEF Layers, Pools
<1>5. CASE EncodeTake
  <2>1. PICK i \in Ids : i = Head(inbox)
    BY <1>5 DEF EncodeTake, LayersTypeOK
  <2>2. \E s \in {"Cancelled", "Encoding"} : ret' = Sent("Encode", StageMsg(i, s))
    BY <1>5, <2>1 DEF EncodeTake
  <2>3. {"Cancelled", "Encoding"} \subseteq StagesOf("Encode") \cap Stages
    BY DEF StagesOf, Stages
  <2> QED
    BY <1>1, <1>4, <2>2, <2>3, SpeaksStill
<1>6. ASSUME NEW s \in {"Encoded", "Failed", "Cancelled"}, EncodeEnd(s) PROVE Speaks'
  <2>1. cur \in Ids /\ ret' = Sent("Encode", StageMsg(cur, s))
    BY <1>6, PnJobsAssumption DEF EncodeEnd, LayersTypeOK, Ids, Ids0
  <2>2. s \in StagesOf("Encode") \cap Stages
    BY DEF StagesOf, Stages
  <2> QED
    BY <1>1, <1>4, <2>1, <2>2, SpeaksStill
<1>7. ASSUME NEW p \in Pools, PoolStart(p) PROVE Speaks'
  <2>1. PICK i \in Ids : i = Head(pend[p])
    BY <1>7 DEF PoolStart, LayersTypeOK
  <2>2. ret' = ret \/ ret' = Sent(p, AssignMsg(i))
    BY <1>7, <2>1 DEF PoolStart, TrySent
  <2> QED
    BY <1>2, <1>4, <2>2, SpeaksStill
<1>8. ASSUME NEW p \in Pools, NEW i \in Ids, PoolStep(p, i) PROVE Speaks'
  <2>1. \E s \in StagesOf(p) \cap Stages : ret' = Sent(p, StageMsg(i, s))
    <3>1. CASE PoolDone(p, i)
      BY <3>1 DEF PoolDone, Download, PoolEnd, ProbeResult, StagesOf, Stages
    <3>2. CASE PoolFailed(p, i) \/ PoolCancelled(p, i)
      BY <3>2 DEF PoolFailed, PoolCancelled, PoolEnd, StagesOf, Stages, Pools
    <3> QED
      BY <1>8, <3>1, <3>2 DEF PoolStep
  <2> QED
    BY <1>1, <1>4, <2>1, SpeaksStill
<1>9. ASSUME NEW p \in Pools, NEW i \in Ids, FetchTorrent(p, i) PROVE Speaks'
  BY <1>9, SpeaksStill DEF FetchTorrent
<1>10. ASSUME NEW i \in Known, DownloadStep(i) PROVE Speaks'
  <2>1. i \in Ids
    BY DEF Known
  <2>2. CASE LockTorrent(i)
    BY <2>2, SpeaksStill DEF LockTorrent
  <2>3. CASE TorrentLocked(i)
    <3>1. \E o \in Ids0 : ret' = Sent("Download", DuplicateMsg(i, o))
      BY <2>3, PnJobsAssumption DEF TorrentLocked, LockHolders, PoolEnd, Ids, Ids0
    <3> QED
      BY <1>3, <1>4, <2>1, <3>1, SpeaksStill
  <2>4. CASE FileDone(i)
    <3>1. \E f \in Entries(born[i]) : ret' = ret \/ ret' = Sent("Download", FileDoneMsg(i, f))
      BY <2>4 DEF FileDone, TrySent
    <3>2. Entries(born[i]) \subseteq Idx
      BY <2>1, BornOfRequest DEF Known, LayersTypeOK, Entries, Request, Idx
    <3> QED
      BY <1>3, <1>4, <2>1, <3>1, <3>2, SpeaksStill
  <2> QED
    BY <1>10, <2>2, <2>3, <2>4 DEF DownloadStep
<1>11. ASSUME NEW i \in Ids, PreviewStart(i) PROVE Speaks'
  <2>1. ret' = Sent("Probe", StageMsg(i, "Encoding"))
    BY <1>11 DEF PreviewStart
  <2>2. "Encoding" \in StagesOf("Probe") \cap Stages
    BY DEF StagesOf, Stages
  <2> QED
    BY <1>1, <1>4, <2>1, <2>2, SpeaksStill
<1> QED
  BY <1>5, <1>6, <1>7, <1>8, <1>9, <1>10, <1>11 DEF WorkersNext, EncoderNext, PoolNext, Known

\* The loop takes what was said, or reboots the layer, and says nothing itself.
LEMMA LoopSaysNothing ==
  ASSUME LayersTypeOK, LoopStep \/ ClientStep \/ ClockStep
  PROVE  \/ ret' = ret
         \/ \E l \in Layers : ret[l] # <<>> /\ Received(l)
         \/ \A l \in Layers : ret'[l] = ret[l] \/ ret'[l] = <<>>
<1> DEFINE Goal == \/ ret' = ret
                   \/ \E l \in Layers : ret[l] # <<>> /\ Received(l)
                   \/ \A l \in Layers : ret'[l] = ret[l] \/ ret'[l] = <<>>
<1>1. ASSUME NEW s, EncodeReboot(s) PROVE Goal
  BY <1>1 DEF EncodeReboot, LayersTypeOK
<1>2. ASSUME NEW i, EncodeSend(i) PROVE Goal
  BY <1>1, <1>2 DEF EncodeSend
<1>3. GitSync => Goal
  BY DEF GitSync
<1>4. Admit => Goal
  BY <1>2 DEF Admit, AdmitForwarded, AdmitKilled, AdmitDownload, AdmitProbe, AdmitStudio,
              AdmitKeycode
<1>5. Receive => Goal
  BY DEF Receive
<1>6. ASSUME NEW i \in Ids, ProgressStep(i) PROVE Goal
  BY <1>2, <1>6 DEF ProgressStep, ProgressSkip, Skip, KeycodeWait, KeycodeFail, KeycodeDispatch,
         DispatchProbeLayer, DispatchUpload, FinishKeep, EncodeForward, EncodeWaitsForInput,
         EncodeHeldBack, EncodeDispatch, DispatchKilled, layerVars
<1>7. ASSUME NEW i \in Ids, DupStep(i) \/ WaitStep(i) PROVE Goal
  BY <1>7 DEF DupStep, WaitStep
<1>8. NoRequest \/ NoMessage \/ DupEnd \/ WaitEnd \/ ProgressEnd \/ BatchParents => Goal
  BY DEF NoRequest, NoMessage, DupEnd, WaitEnd, ProgressEnd, BatchParents, layerVars
<1>9. GitQuery \/ ArmedGitQuery => Goal
  BY <1>3 DEF GitQuery, ArmedGitQuery, layerVars
<1>10. ASSUME NEW n \in Names, Submit(n) PROVE Goal
  BY <1>10 DEF Submit, Refuse, DeclineSetup, Prepare, layerVars
<1>11. ASSUME NEW i \in Ids, Cancel(i) \/ ProbeTimeout(i) PROVE Goal
  BY <1>11 DEF Cancel, ProbeTimeout
<1>12. ASSUME NEW S, EncodeStall(S) PROVE Goal
  <2>1. EncodeReboot(<<>>)
    BY <1>12 DEF EncodeStall
  <2> QED
    BY <1>1, <2>1
<1>13. DrainReboot \/ ReceiveReboot \/ ExpireCache \/ ExpireKeep => Goal
  BY <1>1 DEF DrainReboot, ReceiveReboot, ExpireCache, ExpireKeep, layerVars
<1> QED
  BY <1>4, <1>5, <1>6, <1>7, <1>8, <1>9, <1>10, <1>11, <1>12, <1>13
     DEF LoopStep, ClientStep, ClockStep

\* Each layer says only what is its own to say.
LEMMA NextSpeaks == Typed /\ Speaks /\ [Next]_vars => Speaks'
<1> SUFFICES ASSUME Typed, Speaks, [Next]_vars PROVE Speaks'
  OBVIOUS
<1>1. LayersTypeOK
  BY DEF Typed, TypeOK
<1>2. CASE LoopStep \/ ClientStep \/ ClockStep
  BY <1>1, <1>2, LoopSaysNothing, SpeaksStill
<1>3. CASE WorkerStep
  BY <1>1, <1>3, WorkersSpeak DEF WorkerStep
<1>4. CASE UNCHANGED vars
  BY <1>1, <1>4, SpeaksStill DEF vars, layerVars
<1> QED
  BY <1>2, <1>3, <1>4 DEF Next

-----------------------------------------------------------------------------
(* Messages: a job that was let go of, and its next walk *)

\* The first walk starts with the jobs as this turn leaves them.
LEMMA StartDupHolds ==
  ASSUME NEW Q, StartDup(job', Q)
  PROVE  WalksHold' /\ pc' = "dup"
<1>1. /\ pc' = "dup"
      /\ pass'.todo = {i \in Q : job'[i].fwd = 0 /\ job'[i].dup # 0 /\ job'[i].ready = "Downloading"}
  BY DEF StartDup, NoPass
<1> QED
  BY <1>1 DEF WalksHold

\* After a message the loop goes back to the top: what it changed for a job that
\* is still with a layer is not its lease.
LEMMA BackAfterMessage ==
  ASSUME Typed, PlacesInv, NEW jobs \in Jobs, BackToTop(jobs), Places', epoch' = epoch,
         nextId' \in Nat, nextId <= nextId',
         \A l \in Layers, k \in Ids : With(l, k)' => With(l, k),
         \A l \in Layers, k \in queue' : With(l, k)' =>
           k \in queue /\ k \in Ids /\ Lease(jobs[k]) = Lease(job[k]) /\ born'[k] = born[k]
  PROVE  PlacesInv'
<1>1. job' = Checked(jobs, epoch) /\ pc' = "queue"
  BY DEF BackToTop
<1>2. \A l \in Layers, k \in queue' : With(l, k)' =>
        /\ k \in queue /\ With(l, k)
        /\ Lease(jobs[k]) = Lease(job[k]) /\ born'[k] = born[k]
        /\ l = "Encode" => epoch = epoch /\ epoch' = epoch
  OBVIOUS
<1>3. Served'
  BY <1>1, <1>2, ServedChecked DEF PlacesInv
<1>4. 0 \notin Ids
  BY PnJobsAssumption DEF Ids
<1>5. Fresh'
  BY <1>1, <1>4, FreshStill DEF PlacesInv
<1> QED
  BY <1>1, <1>3, <1>5, NoWalk DEF PlacesInv

\* A stage that a layer announced is the last word of it, unless it is Encoding.
LEMMA StagePlaces ==
  ASSUME Typed, PlacesInv, NEW m \in Message, HandleStage(m), NEW l \in Layers, Says(l, m),
         With(l, m.id), Places', \A x \in Layers, k \in Ids : With(x, k)' => With(x, k),
         Ends(m) => \A x \in Layers : ~With(x, m.id)', epoch' = epoch
  PROVE  PlacesInv'
<1> DEFINE i == m.id
           s == m.stage
           gone == (IF s \in Terminal THEN {i} \cup ForwardedTo({i}) ELSE {}) \cup ProbeLeft(i, s)
           staged == [job EXCEPT ![i] = Staged(@, s)]
           told == BatchTold(staged, {i}, s)
           synced == Synced(told, i, s, job[i].worker)
<1>1. /\ i \in queue /\ i \in Ids /\ m.kind = "stage" /\ s \in Stages
      /\ job \in Jobs /\ queue \subseteq Ids /\ 0 \notin Ids /\ nextId \in Nat
  BY PnJobsAssumption DEF HandleStage, Typed, TypeOK, Message, Jobs, Ids
<1>2. /\ queue' = queue \ gone /\ job' = Without(synced, gone)
      /\ StartDup(job', queue') /\ UNCHANGED <<nextId, born>>
  BY DEF HandleStage
<1>3. staged \in Jobs /\ \A k \in Ids \ {i} : staged[k] = job[k]
  <2>1. Staged(job[i], s) \in Job
    BY <1>1, ZenonT(30) DEF Staged, Job, Jobs
  <2> QED
    BY <1>1, <2>1 DEF Jobs
<1>4. \A k \in Ids : Lease(told[k]) = Lease(staged[k])
  <2>1. staged \in Jobs
    BY <1>3
  <2> HIDE DEF staged, i, s
  <2> QED
    BY <2>1, BatchToldLease
<1>5. \A k \in Ids \ ForwardedTo({i}) : synced[k] = told[k]
  BY DEF Synced
<1> HIDE DEF gone, told, synced
<1>6. \A k \in queue' : k \in queue /\ k \in Ids /\ job'[k] = synced[k]
  BY <1>1, <1>2, WithoutKeeps
<1>7. \A x \in Layers, k \in queue : With(x, k) => k \notin ForwardedTo({i})
  BY <1>1 DEF PlacesInv, Served, Fits, ForwardedTo
<1>8. ASSUME NEW x \in Layers, NEW k \in queue', With(x, k)'
      PROVE  \/ Fits(x, k)'
             \/ /\ k \in queue /\ With(x, k)
                /\ Lease(job'[k]) = Lease(job[k]) /\ born'[k] = born[k]
                /\ x = "Encode" => epoch' = epoch
  <2>1. /\ k \in queue /\ k \in Ids /\ With(x, k) /\ born'[k] = born[k]
        /\ Lease(job'[k]) = Lease(staged[k])
    BY <1>2, <1>4, <1>5, <1>6, <1>7, <1>8
  <2>2. CASE k # i
    BY <1>3, <2>1, <2>2
  <2>3. CASE k = i
    <3>1. s = "Encoding" /\ x = l
      BY <1>1, <1>8, <2>1, <2>3 DEF Ends, PlacesInv, Places, OneLayer
    <3>2. l \in {"Probe", "Encode"}
      BY <1>1, <3>1 DEF Says, StagesOf, Layers, Pools
    <3>3. staged[i] = [job[i] EXCEPT !.ready = "Encoding"]
      BY <1>1, <3>1 DEF Staged, Jobs
    <3>4. /\ staged[i].ready = "Encoding" /\ staged[i].fwd = job[i].fwd
          /\ staged[i].dup = job[i].dup /\ staged[i].dispatched = job[i].dispatched
      BY <1>1, <3>3 DEF Jobs, Job
    <3> HIDE DEF staged, i, s
    <3>5. /\ job'[i].ready = "Encoding" /\ job'[i].fwd = job[i].fwd
          /\ job'[i].dup = job[i].dup /\ job'[i].dispatched = job[i].dispatched
      BY <2>1, <2>3, <3>4 DEF Lease
    <3>6. Fits(l, i)
      BY <2>1, <2>3, <3>1 DEF PlacesInv, Served
    <3>7. Batch(i)' = Batch(i) /\ Type(i)' = Type(i)
      BY <1>2 DEF Batch, Type
    <3>8. Fits(l, i)'
      BY <3>2, <3>5, <3>6, <3>7 DEF Fits
    <3> QED
      BY <2>3, <3>1, <3>8
  <2> QED
    BY <2>2, <2>3
<1>9. Served'
  BY <1>8, ServedStill DEF PlacesInv
<1>10. pc' = "dup" /\ WalksHold'
  BY <1>2, StartDupHolds
<1>11. Fresh'
  BY <1>1, <1>2, <1>10, FreshStill DEF PlacesInv
<1> QED
  BY <1>9, <1>10, <1>11 DEF PlacesInv

\* A batch's file becomes a child that no layer has heard of.
LEMMA FileDonePlaces ==
  ASSUME Typed, PlacesInv, NEW m \in Message, HandleFileDone(m), Places', epoch' = epoch,
         \A x \in Layers, k \in Ids : With(x, k)' => With(x, k)
  PROVE  PlacesInv'
<1> DEFINE p == m.id
           f == m.file
           child == [NewJob EXCEPT !.ready = "Downloaded", !.worker = "enc-pending"]
<1>1. /\ p \in Ids /\ job \in Jobs /\ queue \subseteq Ids /\ nextId \in Nat
      /\ \A k \in Ids : k \in Nat
  BY PnJobsAssumption DEF Typed, TypeOK, Message, Jobs, Ids
<1>2. \A l \in Layers, k \in Ids : With(l, k)' => k # nextId
  BY <1>1 DEF PlacesInv, Fresh
<1>3. ASSUME NEW j \in Job, Lease(j) = Lease(job[p]), UNCHANGED <<queue, nextId, born>>,
             BackToTop([job EXCEPT ![p] = j])
      PROVE  PlacesInv'
  <2> DEFINE jobs == [job EXCEPT ![p] = j]
  <2>1. jobs \in Jobs /\ BackToTop(jobs) /\ \A k \in Ids : Lease(jobs[k]) = Lease(job[k])
    BY <1>1, <1>3 DEF Jobs
  <2> HIDE DEF jobs
  <2> QED
    BY <1>1, <1>3, <2>1, BackAfterMessage
<1>4. CASE BackToTop(job) /\ UNCHANGED <<queue, nextId, born>>
  BY <1>1, <1>4, BackAfterMessage
<1>5. CASE BackToTop([job EXCEPT ![p].failed = @ + 1]) /\ UNCHANGED <<queue, nextId, born>>
  <2> DEFINE j == [job[p] EXCEPT !.failed = @ + 1]
  <2>1. job[p] \in Job
    BY <1>1 DEF Jobs
  <2>2. j \in Job /\ Lease(j) = Lease(job[p])
    BY <2>1 DEF Job, Lease
  <2>3. BackToTop([job EXCEPT ![p] = j])
    BY <1>5
  <2> HIDE DEF j
  <2> QED
    BY <1>3, <1>5, <2>2, <2>3
<1>6. CASE /\ nextId \in Ids /\ nextId' = nextId + 1
           /\ born' = [born EXCEPT ![nextId] = [name |-> born[p].name, parent |-> p, idx |-> f]]
           /\ queue' = queue \cup {nextId}
           /\ BackToTop([job EXCEPT ![p].kid[f] = nextId, ![nextId] = child])
  <2> DEFINE jobs == [job EXCEPT ![p].kid[f] = nextId, ![nextId] = child]
  <2>1. job[p] \in Job /\ nextId \in Ids0
    BY <1>1, <1>6, PnJobsAssumption DEF Jobs, Ids, Ids0
  <2> DEFINE j == [job[p] EXCEPT !.kid[f] = nextId]
  <2>2. j \in Job /\ Lease(j) = Lease(job[p])
    BY <2>1 DEF Job, Lease
  <2>3. child \in Job
    BY NewJobType DEF Job, Stages, Workers
  <2>4. jobs = [job EXCEPT ![p] = j, ![nextId] = child]
    OBVIOUS
  <2> HIDE DEF j, child
  <2>5. jobs \in Jobs /\ \A k \in Ids : k # nextId => Lease(jobs[k]) = Lease(job[k])
    BY <1>1, <2>2, <2>3, <2>4 DEF Jobs
  <2>6. BackToTop(jobs)
    BY <1>6
  <2>7. \A k \in Ids : k # nextId => born'[k] = born[k]
    BY <1>6 DEF Typed, TypeOK, LayersTypeOK
  <2>8. nextId' \in Nat /\ nextId <= nextId' /\ queue' \subseteq queue \cup {nextId}
        /\ queue' \subseteq Ids
    BY <1>1, <1>6
  <2> HIDE DEF jobs
  <2>9. \A l \in Layers, k \in queue' : With(l, k)' =>
           k \in queue /\ k \in Ids /\ Lease(jobs[k]) = Lease(job[k]) /\ born'[k] = born[k]
    BY <1>2, <2>5, <2>7, <2>8
  <2> QED
    BY <2>5, <2>6, <2>8, <2>9, BackAfterMessage
<1> QED
  BY <1>4, <1>5, <1>6 DEF HandleFileDone

\* Whatever is heard, what is left with the layers fits.
LEMMA MessagePlaces ==
  ASSUME Typed, PlacesInv, Speaks, Receive \/ NoMessage
  PROVE  PlacesInv'
<1>1. /\ LayersTypeOK /\ job \in Jobs /\ queue \subseteq Ids /\ nextId \in Nat /\ 0 \notin Ids
      /\ Places
  BY PnJobsAssumption DEF Typed, TypeOK, Jobs, Ids, PlacesInv
<1>2. CASE NoMessage
  <2>1. /\ UNCHANGED <<pend, run, inbox, cur, ret, epoch, nextId, born, queue, job>>
        /\ StartDup(job', queue)
    BY <1>2 DEF NoMessage, layerVars
  <2>2. pc' = "dup" /\ WalksHold'
    BY <2>1, StartDupHolds
  <2>3. Places' /\ \A l \in Layers, k \in Ids : With(l, k)' => With(l, k)
    BY <1>1, <2>1, NothingSent
  <2>4. Fresh'
    BY <1>1, <2>1, <2>2, <2>3, FreshStill DEF PlacesInv
  <2>5. Served'
    BY <1>1, <2>1, <2>3, ServedStill DEF PlacesInv, Lease
  <2> QED
    BY <2>2, <2>3, <2>4, <2>5 DEF PlacesInv
<1>3. CASE Receive
  <2>1. PICK l \in Layers :
          /\ ret[l] # <<>> /\ Received(l)
          /\ LET m == Head(ret[l]) IN
               \/ HandleStale(m) \/ HandleAssign(l, m) \/ HandleFileDone(m)
               \/ HandleDuplicate(m) \/ HandleStage(m)
    BY <1>3 DEF Receive
  <2>2. PICK m : m = Head(ret[l])
    OBVIOUS
  <2>3. \/ HandleStale(m) \/ HandleAssign(l, m) \/ HandleFileDone(m)
        \/ HandleDuplicate(m) \/ HandleStage(m)
    BY <2>1, <2>2
  <2>4. UNCHANGED <<pend, run, inbox, cur, epoch>>
    BY <1>3 DEF Receive, poolVars, encVars
  <2>5. /\ Places'
        /\ \A x \in Layers, k \in Ids : With(x, k)' => With(x, k)
        /\ m \in Message /\ m.id \in Ids /\ Told(l, m.id)
        /\ Ends(m) => \A x \in Layers : ~With(x, m.id)'
    BY <1>1, <2>1, <2>2, <2>4, Heard
  <2>6. Says(l, m) /\ With(l, m.id)
    BY <1>1, <2>1, <2>2, <2>5, SaidFirst DEF With
  <2>7. CASE HandleStale(m)
    <3>1. UNCHANGED <<nextId, born, queue, job>> /\ StartDup(job', queue)
      BY <2>7 DEF HandleStale
    <3>2. pc' = "dup" /\ WalksHold'
      BY <3>1, StartDupHolds
    <3>3. Fresh'
      BY <1>1, <2>5, <3>1, <3>2, FreshStill DEF PlacesInv
    <3>4. Served'
      BY <1>1, <2>4, <2>5, <3>1, ServedStill DEF PlacesInv, Lease
    <3> QED
      BY <2>5, <3>2, <3>3, <3>4 DEF PlacesInv
  <2>8. CASE HandleAssign(l, m)
    <3> DEFINE label(c) == IF c = m.id THEN [job[c] EXCEPT !.worker = SlotOf(l)]
                           ELSE IF c \in ForwardedTo({m.id})
                                THEN [job[c] EXCEPT !.worker = ForwardedWorker(SlotOf(l))]
                                ELSE job[c]
               jobs == [c \in Ids |-> label(c)]
    <3>1. BackToTop(jobs) /\ UNCHANGED <<nextId, born, queue>>
      BY <2>8 DEF HandleAssign
    <3>2. SlotOf(l) \in Workers
      BY DEF SlotOf, Workers
    <3>3. ASSUME NEW c \in Ids PROVE label(c) \in Job /\ Lease(label(c)) = Lease(job[c])
      <4>1. job[c] \in Job
        BY <1>1 DEF Jobs
      <4>2. \A w \in Workers : /\ [job[c] EXCEPT !.worker = w] \in Job
                               /\ Lease([job[c] EXCEPT !.worker = w]) = Lease(job[c])
        BY <4>1 DEF Job, Lease
      <4> QED
        BY <3>2, <4>1, <4>2, ForwardedWorkerType
    <3> HIDE DEF label
    <3>4. jobs \in Jobs /\ \A k \in Ids : Lease(jobs[k]) = Lease(job[k])
      BY <3>3 DEF Jobs
    <3> HIDE DEF jobs
    <3>5. \A x \in Layers, k \in queue' : With(x, k)' =>
             k \in queue /\ k \in Ids /\ Lease(jobs[k]) = Lease(job[k]) /\ born'[k] = born[k]
      BY <1>1, <3>1, <3>4
    <3> QED
      BY <1>1, <2>4, <2>5, <3>1, <3>4, <3>5, BackAfterMessage
  <2>9. CASE HandleDuplicate(m)
    <3> DEFINE jobs == [job EXCEPT ![m.id].dup = m.owner]
    <3>1. BackToTop(jobs) /\ UNCHANGED <<nextId, born, queue>> /\ m.kind = "duplicate"
      BY <2>9 DEF HandleDuplicate
    <3>2. [job[m.id] EXCEPT !.dup = m.owner] \in Job
      BY <1>1, <2>5, JobUpdates DEF Jobs, Message
    <3>3. jobs \in Jobs /\ \A k \in Ids : k # m.id => jobs[k] = job[k]
      BY <1>1, <2>5, <3>2 DEF Jobs
    <3> HIDE DEF jobs
    <3>4. \A x \in Layers : ~With(x, m.id)'
      BY <2>5, <3>1 DEF Ends
    <3>5. \A x \in Layers, k \in queue' : With(x, k)' =>
             k \in queue /\ k \in Ids /\ Lease(jobs[k]) = Lease(job[k]) /\ born'[k] = born[k]
      BY <1>1, <3>1, <3>3, <3>4 DEF Lease
    <3> QED
      BY <1>1, <2>4, <2>5, <3>1, <3>3, <3>5, BackAfterMessage
  <2>10. CASE HandleFileDone(m)
    BY <2>4, <2>5, <2>10, FileDonePlaces
  <2>11. CASE HandleStage(m)
    BY <2>4, <2>5, <2>6, <2>11, StagePlaces
  <2> QED
    BY <2>3, <2>7, <2>8, <2>9, <2>10, <2>11
<1> QED
  BY <1>2, <1>3

-----------------------------------------------------------------------------
(* Walks: a job that is with nobody goes to its next worker *)

\* A job that waits for the loop to do something about it is with nobody.
LEMMA WithNobody ==
  ASSUME PlacesInv, NEW i \in queue,
         \/ job[i].ready \in {"Encoded", "Failed", "Probed"}
         \/ job[i].ready = "Downloading" /\ job[i].dup # 0
         \/ job[i].ready = "Downloaded" /\ ~job[i].dispatched
         \/ job[i].ready = "Downloaded" /\ Type(i) \in {"Subs", "Preview", "Backup", "BackupAll"}
         \/ job[i].ready = "Queued" /\ ~job[i].dispatched
         \/ job[i].ready = "Queued" /\ Type(i) # "Keycode"
  PROVE  \A l \in Layers : ~With(l, i)
<1> SUFFICES ASSUME NEW l \in Layers, With(l, i) PROVE FALSE
  OBVIOUS
<1>1. Fits(l, i)
  BY DEF PlacesInv, Served
<1>2. l \in {"Download", "Upload", "Probe", "Encode"}
  BY DEF Layers, Pools
<1> QED
  BY <1>1, <1>2 DEF Fits

\* A walk visits a job that is with nobody, and may send it to a layer.
LEMMA VisitPlaces ==
  ASSUME Typed, RowsInv, PlacesInv, pc \in {"dup", "wait", "progress"}, NEW i \in pass.todo,
         pc' = pc, UNCHANGED <<queue, nextId, born>>, pass'.todo = pass.todo \ {i},
         \A k \in Ids \ {i} : job'[k] = job[k],
         \A l \in Layers : ~With(l, i), Places', NEW x \in Layers,
         \A l \in Layers, k \in Ids : With(l, k)' => With(l, k) \/ (l = x /\ k = i),
         epoch' = epoch \/ \A k \in Ids : With("Encode", k)' => k = i,
         With(x, i)' => Fits(x, i)'
  PROVE  PlacesInv'
<1>1. i \in queue /\ i \in Ids /\ i < nextId /\ nextId \in Nat /\ queue \subseteq Ids
  BY DEF RowsInv, WalkVisitsLiving, QueuedBefore, Typed, TypeOK
<1>2. Fresh'
  BY <1>1, FreshStill DEF PlacesInv
<1>3. ASSUME NEW l \in Layers, NEW k \in queue', With(l, k)'
      PROVE  \/ Fits(l, k)'
             \/ /\ k \in queue /\ With(l, k)
                /\ Lease(job'[k]) = Lease(job[k]) /\ born'[k] = born[k]
                /\ l = "Encode" => epoch' = epoch
  <2>1. CASE k = i
    BY <1>1, <1>3, <2>1
  <2>2. CASE k # i
    BY <1>1, <1>3, <2>2 DEF Lease
  <2> QED
    BY <2>1, <2>2
<1>4. Served'
  BY <1>3, ServedStill DEF PlacesInv
<1>5. \A k \in pass'.todo : k \in pass.todo /\ job'[k] = job[k] /\ Type(k)' = Type(k)
  BY DEF Typed, TypeOK, Pass, Type
<1>6. WalksHold'
  BY <1>5 DEF PlacesInv, WalksHold
<1> QED
  BY <1>2, <1>4, <1>6 DEF PlacesInv

\* A walk visits a job and sends nothing: what it gives the job, a job that is
\* with a layer does not get.
LEMMA VisitQuiet ==
  ASSUME Typed, RowsInv, PlacesInv, pc \in {"dup", "wait", "progress"}, NEW i \in pass.todo,
         pc' = pc, UNCHANGED <<queue, nextId, born, pend, run, inbox, cur, ret, epoch>>,
         pass'.todo = pass.todo \ {i},
         \A k \in Ids \ {i} : job'[k] = job[k],
         Lease(job'[i]) = Lease(job[i]) \/ \A l \in Layers : ~With(l, i)
  PROVE  PlacesInv'
<1>1. queue \subseteq Ids /\ nextId \in Nat /\ 0 \notin Ids
  BY PnJobsAssumption DEF Typed, TypeOK, Ids
<1>2. Places' /\ \A l \in Layers, k \in Ids : With(l, k)' => With(l, k)
  BY NothingSent DEF PlacesInv
<1>3. Fresh'
  BY <1>1, <1>2, FreshStill DEF PlacesInv
<1>4. ASSUME NEW l \in Layers, NEW k \in queue', With(l, k)'
      PROVE  /\ k \in queue /\ With(l, k)
             /\ Lease(job'[k]) = Lease(job[k]) /\ born'[k] = born[k]
             /\ l = "Encode" => epoch' = epoch
  <2>1. k \in queue /\ k \in Ids /\ With(l, k)
    BY <1>1, <1>2, <1>4
  <2>2. Lease(job'[k]) = Lease(job[k])
    BY <2>1 DEF Lease
  <2> QED
    BY <2>1, <2>2
<1>5. Served'
  BY <1>4, ServedStill DEF PlacesInv
<1>6. \A k \in pass'.todo : k \in pass.todo /\ job'[k] = job[k] /\ Type(k)' = Type(k)
  BY DEF Typed, TypeOK, Pass, Type
<1>7. WalksHold'
  BY <1>6 DEF PlacesInv, WalksHold
<1> QED
  BY <1>2, <1>3, <1>5, <1>7 DEF PlacesInv

\* A job that waits for another's input is with nobody, and one that is queued
\* again is with nobody until it is sent to the download pool.
LEMMA WaitWalkPlaces ==
  ASSUME Typed, RowsInv, PlacesInv, NEW i \in Ids, DupStep(i) \/ WaitStep(i)
  PROVE  PlacesInv'
<1>1. i \in pass.todo /\ pc \in {"dup", "wait"} /\ pc' = pc /\ UNCHANGED <<queue, nextId, born>>
  BY DEF DupStep, WaitStep, At
<1>2. i \in queue /\ job \in [Ids -> Job]
  BY <1>1 DEF RowsInv, WalkVisitsLiving, Typed, TypeOK
<1>3. LayersTypeOK /\ Places /\ "Download" \in Pools /\ "Download" \in Layers
  BY DEF Typed, TypeOK, PlacesInv, Pools, Layers
<1>4. CASE DupStep(i)
  <2>1. pc = "dup" /\ pass' = Past(i) /\ UNCHANGED <<pend, run, inbox, cur, ret, epoch>>
    BY <1>4 DEF DupStep, At, poolVars, encVars
  <2>2. \A k \in Ids \ {i} : job'[k] = job[k]
    BY <1>2, <1>4 DEF DupStep
  <2>3. \A l \in Layers : ~With(l, i)
    BY <1>1, <1>2, <2>1, WithNobody DEF PlacesInv, WalksHold
  <2>4. pass'.todo = pass.todo \ {i}
    BY <2>1, PastFields
  <2> QED
    BY <1>1, <2>1, <2>2, <2>3, <2>4, VisitQuiet
<1>5. CASE WaitStep(i)
  <2>1. pc = "wait" /\ UNCHANGED <<run, inbox, cur, ret, epoch>>
    BY <1>5 DEF WaitStep, At, encVars
  <2>2. /\ job[i].ready = "Queued" /\ Type(i) \in RequeueTypes
        /\ job[i].fwd = 0 /\ job[i].dup = 0
    BY <1>1, <2>1 DEF PlacesInv, WalksHold
  <2>3. \A l \in Layers : ~With(l, i)
    BY <1>2, <2>2, WithNobody DEF RequeueTypes
  <2>4. pass'.todo = pass.todo \ {i}
    <3>1. CASE pass' = Past(i)
      BY <3>1, PastFields
    <3>2. CASE Killed(i)
      BY <3>2, PastFields DEF Killed
    <3> QED
      BY <1>5, <3>1, <3>2 DEF WaitStep
  <2>5. \A k \in Ids \ {i} : job'[k] = job[k]
    BY <1>2, <1>5 DEF WaitStep
  <2>6. CASE pend' = pend
    BY <1>1, <2>1, <2>3, <2>4, <2>5, <2>6, VisitQuiet
  <2>7. CASE RouteSend(i) /\ job' = [job EXCEPT ![i] = Routed(i, @)] /\ RouteOf(i) = "download"
    <3>1. PoolSend("Download", i)
      BY <2>7 DEF RouteSend
    <3>2. /\ Places'
          /\ \A l \in Layers, k \in Ids : With(l, k)' => With(l, k) \/ (l = "Download" /\ k = i)
      BY <1>3, <2>1, <2>3, <3>1, SentToPool
    <3>3. job'[i] = [job[i] EXCEPT !.ready = "Downloading"]
      BY <1>2, <2>7 DEF Routed
    <3>4. job'[i].ready = "Downloading" /\ job'[i].fwd = 0 /\ job'[i].dup = 0
      BY <1>2, <2>2, <3>3 DEF Job
    <3>5. Fits("Download", i)'
      BY <3>4 DEF Fits
    <3> QED
      BY <1>1, <1>3, <2>1, <2>3, <2>4, <2>5, <3>2, <3>5, VisitPlaces
  <2> QED
    BY <1>5, <2>6, <2>7 DEF WaitStep, RouteSend
<1> QED
  BY <1>4, <1>5

\* A job is handed to the probe pool, the upload pool or the encoder only while
\* it is with nobody.
LEMMA ProgressPlaces ==
  ASSUME Typed, RowsInv, PlacesInv, NEW i \in Ids, ProgressStep(i)
  PROVE  PlacesInv'
<1>1. i \in pass.todo /\ pc = "progress" /\ pc' = pc /\ UNCHANGED <<queue, nextId, born>>
  BY DEF ProgressStep, ProgressSkip, Skip, KeycodeWait, KeycodeFail, KeycodeDispatch,
         DispatchProbeLayer, DispatchUpload, FinishKeep, EncodeForward, EncodeWaitsForInput,
         EncodeHeldBack, EncodeDispatch, DispatchKilled, EncodeReady, Encodable, Progressing,
         At, Steady, layerVars
<1>2. i \in queue /\ job \in [Ids -> Job]
  BY <1>1 DEF RowsInv, WalkVisitsLiving, Typed, TypeOK
<1>3. /\ LayersTypeOK /\ Places /\ {"Upload", "Probe"} \subseteq Pools
      /\ Pools \subseteq Layers /\ "Encode" \in Layers
  BY DEF Typed, TypeOK, PlacesInv, Pools, Layers
\* without a send
<1>4. ASSUME UNCHANGED <<pend, run, inbox, cur, ret, epoch>>,
             pass'.todo = pass.todo \ {i}, \A k \in Ids \ {i} : job'[k] = job[k],
             \/ Lease(job'[i]) = Lease(job[i])
             \/ job[i].ready \in {"Encoded"}
             \/ job[i].ready = "Downloaded" /\ ~job[i].dispatched
             \/ job[i].ready = "Downloaded" /\ Type(i) = "Backup"
             \/ job[i].ready = "Queued" /\ ~job[i].dispatched
      PROVE  PlacesInv'
  <2>1. Lease(job'[i]) = Lease(job[i]) \/ \A l \in Layers : ~With(l, i)
    BY <1>2, <1>4, WithNobody
  <2> QED
    BY <1>1, <1>4, <2>1, VisitQuiet
\* to a pool
<1>5. ASSUME NEW p \in Pools, NEW s, NEW w, PoolDispatch(i, p, s, w), Progressing(i),
             ToProbeLayer(i) \/ ToUpload(i), UNCHANGED <<run, inbox, cur, ret, epoch>>,
             pass'.todo = pass.todo \ {i},
             (p = "Upload" /\ s = "Uploading") \/ (p = "Probe" /\ s = "Encoding")
      PROVE  PlacesInv'
  <2>1. \A l \in Layers : ~With(l, i)
    BY <1>2, <1>5, WithNobody DEF ToProbeLayer, ToUpload
  <2>2. /\ Places'
        /\ \A l \in Layers, k \in Ids : With(l, k)' => With(l, k) \/ (l = p /\ k = i)
    BY <1>3, <1>5, <2>1, SentToPool DEF PoolDispatch
  <2>3. /\ \A k \in Ids \ {i} : job'[k] = job[k]
        /\ job'[i] = [job[i] EXCEPT !.ready = s, !.worker = w]
    BY <1>2, <1>5 DEF PoolDispatch
  <2>4. job'[i].ready = s /\ job'[i].fwd = 0
    BY <1>2, <1>5, <2>3 DEF Job, Progressing
  <2>5. Fits(p, i)'
    BY <1>5, <2>4 DEF Fits
  <2> QED
    BY <1>1, <1>3, <1>5, <2>1, <2>2, <2>3, <2>5, VisitPlaces
\* to the encoder
<1>6. ASSUME EncodeSend(i), UNCHANGED <<pend, run>>, Progressing(i), ~job[i].dispatched,
             \/ job[i].ready = "Downloaded"
             \/ job[i].ready = "Queued" /\ Type(i) = "Keycode",
             Type(i) \notin {"Subs", "Preview", "Backup", "BackupAll"},
             job' = [job EXCEPT ![i] = Dispatched([@ EXCEPT !.worker = "enc-main"], epoch')],
             pass'.todo = pass.todo \ {i}
      PROVE  PlacesInv'
  <2>1. \A l \in Layers : ~With(l, i)
    BY <1>2, <1>6, WithNobody
  <2>2. /\ Places'
        /\ \A l \in Layers, k \in Ids : With(l, k)' => With(l, k) \/ (l = "Encode" /\ k = i)
        /\ epoch' = epoch \/ \A k \in Ids : With("Encode", k)' => k = i
    BY <1>3, <1>6, <2>1, SentToEncoder
  <2>3. /\ \A k \in Ids \ {i} : job'[k] = job[k]
        /\ job'[i] = Dispatched([job[i] EXCEPT !.worker = "enc-main"], epoch')
    BY <1>2, <1>6
  <2>4. /\ job'[i].ready = job[i].ready /\ job'[i].fwd = 0
        /\ job'[i].dispatched /\ job'[i].epoch = epoch'
    BY <1>2, <1>6, <2>3 DEF Job, Progressing, Dispatched
  <2>5. Type(i)' = Type(i) /\ ~Batch(i)'
    BY <1>1, <1>6 DEF Type, Batch, Progressing
  <2>6. Fits("Encode", i)'
    BY <1>6, <2>4, <2>5 DEF Fits
  <2> QED
    BY <1>1, <1>3, <1>6, <2>1, <2>2, <2>3, <2>6, VisitPlaces
<1>7. CASE ProgressSkip(i) \/ EncodeHeldBack(i)
  <2>1. UNCHANGED <<pend, run, inbox, cur, ret, epoch, job>> /\ pass' = Past(i)
    BY <1>7 DEF ProgressSkip, EncodeHeldBack, Skip, layerVars
  <2> QED
    BY <1>4, <2>1, PastFields
<1>8. CASE KeycodeWait(i)
  <2>1. /\ UNCHANGED <<pend, run, inbox, cur, ret, epoch>> /\ pass' = Past(i)
        /\ job' = [job EXCEPT ![i].worker = "key-wait"]
    BY <1>8 DEF KeycodeWait, poolVars, encVars
  <2>2. /\ \A k \in Ids \ {i} : job'[k] = job[k]
        /\ job'[i] = [job[i] EXCEPT !.worker = "key-wait"]
    BY <1>2, <2>1
  <2>3. Lease(job'[i]) = Lease(job[i])
    BY <1>2, <2>2 DEF Job, Lease
  <2> QED
    BY <1>4, <2>1, <2>2, <2>3, PastFields
<1>9. CASE KeycodeFail(i)
  <2>1. /\ UNCHANGED <<pend, run, inbox, cur, ret, epoch>> /\ Killed(i) /\ KeycodeWaits(i)
        /\ \A k \in Ids \ {i} : job'[k] = job[k]
    BY <1>2, <1>9 DEF KeycodeFail, poolVars, encVars
  <2> QED
    BY <1>4, <2>1, PastFields DEF Killed, KeycodeWaits
<1>10. CASE FinishKeep(i)
  <2>1. /\ UNCHANGED <<pend, run, inbox, cur, ret, epoch>> /\ KeepDone(i)
        /\ pass' = [Past(i) EXCEPT !.dead = @ \cup {i}]
        /\ \A k \in Ids \ {i} : job'[k] = job[k]
    BY <1>2, <1>10 DEF FinishKeep, poolVars, encVars
  <2> QED
    BY <1>4, <2>1, PastFields DEF KeepDone
<1>11. CASE EncodeForward(i) \/ EncodeWaitsForInput(i)
  <2>1. /\ UNCHANGED <<pend, run, inbox, cur, ret, epoch>> /\ Encodable(i)
        /\ pass' = Past(i)
        /\ \A k \in Ids \ {i} : job'[k] = job[k]
    BY <1>2, <1>11 DEF EncodeForward, EncodeWaitsForInput, poolVars, encVars
  <2> QED
    BY <1>4, <2>1, PastFields DEF Encodable, InEncodeBranch
<1>12. CASE DispatchKilled(i)
  <2>1. UNCHANGED <<pend, run, inbox, cur, ret, epoch, job>> /\ Killed(i)
    BY <1>12 DEF DispatchKilled, poolVars, encVars
  <2> QED
    BY <1>4, <2>1, PastFields DEF Killed
<1>13. CASE DispatchProbeLayer(i)
  <2>1. /\ PoolDispatch(i, "Probe", "Encoding", "prw-pending") /\ pass' = Past(i)
        /\ Progressing(i) /\ ToProbeLayer(i) /\ UNCHANGED <<run, inbox, cur, ret, epoch>>
    BY <1>13 DEF DispatchProbeLayer, encVars
  <2> QED
    BY <1>3, <1>5, <2>1, PastFields
<1>14. CASE DispatchUpload(i)
  <2>1. /\ PoolDispatch(i, "Upload", "Uploading", "upl-pending")
        /\ Progressing(i) /\ ToUpload(i) /\ UNCHANGED <<run, inbox, cur, ret, epoch>>
    BY <1>14 DEF DispatchUpload, encVars
  <2>2. \E u : pass' = [Past(i) EXCEPT !.uploads = u]
    BY <1>14, Zenon DEF DispatchUpload
  <2>3. pass'.todo = pass.todo \ {i}
    <3>1. PICK u : pass' = [Past(i) EXCEPT !.uploads = u]
      BY <2>2
    <3>2. [Past(i) EXCEPT !.uploads = u].todo = pass.todo \ {i}
      BY PastFields, Zenon
    <3> QED
      BY <3>1, <3>2, Zenon
  <2> QED
    BY <1>3, <1>5, <2>1, <2>3
<1>15. CASE KeycodeDispatch(i)
  <2>1. /\ EncodeSend(i) /\ UNCHANGED <<pend, run>> /\ Progressing(i) /\ KeycodeWaits(i)
        /\ job' = [job EXCEPT ![i] = Dispatched([@ EXCEPT !.worker = "enc-main"], epoch')]
        /\ pass' = Past(i)
    BY <1>15 DEF KeycodeDispatch, poolVars
  <2> QED
    BY <1>6, <2>1, PastFields DEF KeycodeWaits
<1>16. CASE EncodeDispatch(i)
  <2>1. /\ EncodeSend(i) /\ UNCHANGED <<pend, run>> /\ Encodable(i)
        /\ job' = [job EXCEPT ![i] = Dispatched([@ EXCEPT !.worker = "enc-main"], epoch')]
    BY <1>16 DEF EncodeDispatch, EncodeReady, poolVars
  <2>2. \E f, x, y : pass' = [Past(i) EXCEPT !.inFlight = f, !.source = x, !.parent = y]
    BY <1>16, Zenon DEF EncodeDispatch
  <2>3. pass'.todo = pass.todo \ {i}
    BY <2>2, PastFields
  <2> QED
    BY <1>6, <2>1, <2>3 DEF Encodable, InEncodeBranch
<1> QED
  BY <1>7, <1>8, <1>9, <1>10, <1>11, <1>12, <1>13, <1>14, <1>15, <1>16 DEF ProgressStep

\* What do_batch_parent_things makes of the record of a job: counts its files that
\* never came, once.
SettledJob(k) ==
  IF k \in queue /\ Batch(k) /\ job[k].ready = "Downloaded" /\ ~job[k].settled
  THEN Settle(born[k], job[k]) ELSE job[k]

\* Counting them is no matter of its lease.
LEMMA SettledLease ==
  ASSUME Typed, NEW k \in Ids
  PROVE  SettledJob(k) \in Job /\ Lease(SettledJob(k)) = Lease(job[k])
<1>1. job[k] \in Job
  BY DEF Typed, TypeOK
<1>2. Unspawned(born[k], job[k]) \subseteq Files => Cardinality(Unspawned(born[k], job[k])) \in Nat
  BY PnJobsAssumption, FS_Subset, FS_CardinalityType
<1>3. k \in queue => Unspawned(born[k], job[k]) \subseteq Files
  BY BornOfRequest DEF Typed, TypeOK, LayersTypeOK, Known, Unspawned, Entries, Request
<1>4. ASSUME k \in queue
      PROVE  /\ Settle(born[k], job[k]) \in Job
             /\ Lease(Settle(born[k], job[k])) = Lease(job[k])
  <2> DEFINE n == Cardinality(Unspawned(born[k], job[k]))
  <2>1. n \in Nat
    BY <1>2, <1>3, <1>4
  <2>2. Settle(born[k], job[k]) = [job[k] EXCEPT !.settled = TRUE, !.failed = @ + n]
    BY DEF Settle
  <2> HIDE DEF n
  <2>3. job[k].failed + n \in Nat /\ TRUE \in BOOLEAN
    BY <1>1, <2>1 DEF Job
  <2>4. [job[k] EXCEPT !.settled = TRUE, !.failed = @ + n] \in Job
    BY <1>1, <2>3 DEF Job
  <2>5. Lease([job[k] EXCEPT !.settled = TRUE, !.failed = @ + n]) = Lease(job[k])
    BY <1>1, <2>3 DEF Job, Lease
  <2> QED
    BY <2>2, <2>4, <2>5
<1> QED
  BY <1>1, <1>4 DEF SettledJob

\* Between two walks nobody gets a worker; who was brought along or left with the
\* dead had none.
LEMMA WalkEndsPlaces ==
  ASSUME Typed, RowsInv, PlacesInv, QueuedOweNothing, DupEnd \/ WaitEnd \/ ProgressEnd \/ BatchParents
  PROVE  PlacesInv'
<1>1. /\ job \in Jobs /\ queue \subseteq Ids /\ nextId \in Nat /\ 0 \notin Ids /\ Places
      /\ UNCHANGED <<pend, run, inbox, cur, ret, epoch, nextId, born>>
  <2>1. /\ job \in Jobs /\ queue \subseteq Ids /\ nextId \in Nat /\ 0 \notin Ids /\ Places
    BY PnJobsAssumption DEF Typed, TypeOK, Jobs, Ids, PlacesInv
  <2>2. CASE DupEnd \/ WaitEnd \/ ProgressEnd
    <3>1. UNCHANGED nextId /\ UNCHANGED layerVars
      BY <2>2 DEF DupEnd, WaitEnd, ProgressEnd
    <3> QED
      BY <2>1, <3>1 DEF layerVars
  <2>3. CASE BatchParents
    <3>1. UNCHANGED <<nextId, born, poolVars, encVars, ret>>
      BY <2>3 DEF BatchParents
    <3> QED
      BY <2>1, <3>1 DEF poolVars, encVars
  <2> QED
    BY <2>2, <2>3
<1>2. Places' /\ \A l \in Layers, k \in Ids : With(l, k)' => With(l, k)
  BY <1>1, NothingSent
<1>3. CASE DupEnd
  <2>1. /\ pc' = "wait" /\ UNCHANGED <<queue, job>>
        /\ pass'.todo =
             {i \in queue : /\ job[i].fwd = 0 /\ job[i].ready = "Queued"
                            /\ job[i].worker = "dwl-pending" /\ Type(i) \in RequeueTypes}
    BY <1>3 DEF DupEnd, NoPass
  <2>2. \A i \in queue : Type(i)' = Type(i)
    BY <1>1 DEF Type
  <2>3. WalksHold'
    BY <2>1, <2>2 DEF WalksHold, QueuedOweNothing
  <2>4. Served'
    BY <1>1, <1>2, <2>1, ServedStill DEF PlacesInv, Lease
  <2>5. Fresh'
    BY <1>1, <1>2, <2>1, FreshStill DEF PlacesInv
  <2> QED
    BY <1>2, <2>3, <2>4, <2>5 DEF PlacesInv
<1>4. CASE WaitEnd
  <2> DEFINE jobs == Without(job, pass.dead)
  <2>1. /\ pc' = "progress" /\ queue' = queue \ pass.dead /\ job' = Checked(jobs, epoch)
    BY <1>4 DEF WaitEnd
  <2>2. jobs \in Jobs /\ \A k \in queue' : k \in queue /\ k \in Ids /\ jobs[k] = job[k]
    BY <1>1, <2>1, WithoutType, WithoutKeeps
  <2> HIDE DEF jobs
  <2>3. \A l \in Layers, k \in queue' : With(l, k)' =>
          /\ k \in queue /\ With(l, k)
          /\ Lease(jobs[k]) = Lease(job[k]) /\ born'[k] = born[k]
          /\ l = "Encode" => epoch = epoch /\ epoch' = epoch
    BY <1>1, <1>2, <2>2 DEF Lease
  <2>4. Served'
    BY <2>1, <2>2, <2>3, ServedChecked DEF PlacesInv
  <2>5. Fresh'
    BY <1>1, <1>2, <2>1, FreshStill DEF PlacesInv
  <2> QED
    BY <1>2, <2>1, <2>4, <2>5, NoWalk DEF PlacesInv
<1>5. CASE ProgressEnd
  <2> DEFINE followers == ForwardedTo(pass.uploads)
             synced == [c \in Ids |-> IF c \in followers
                                  THEN [job[c] EXCEPT !.ready = "Uploading", !.worker = "upl-forward"]
                                  ELSE job[c]]
  <2>1. pc' = "batch" /\ queue' = queue \ pass.dead /\ job' = Without(synced, pass.dead)
    BY <1>5 DEF ProgressEnd
  <2>2. \A k \in Ids \ followers : synced[k] = job[k]
    OBVIOUS
  <2>3. pass.uploads \subseteq Ids
    BY DEF Typed, TypeOK, Pass
  <2>4. \A k \in queue : (\E l \in Layers : With(l, k)) => k \notin followers
    BY <1>1, <2>3 DEF PlacesInv, Served, Fits, ForwardedTo
  <2> HIDE DEF followers, synced
  <2>5. \A k \in queue' : (\E l \in Layers : With(l, k)) =>
          k \in queue /\ Lease(job'[k]) = Lease(job[k])
    BY <1>1, <2>1, <2>2, <2>4, WithoutKeeps DEF Lease
  <2> QED
    BY <1>1, <2>1, <2>5, QuietPlaces
<1>6. CASE BatchParents
  <2> DEFINE settled == [i \in Ids |->
               IF i \in queue /\ Batch(i) /\ job[i].ready = "Downloaded" /\ ~job[i].settled
               THEN Settle(born[i], job[i]) ELSE job[i]]
             done == {i \in queue : /\ Batch(i) /\ Complete(born[i], settled[i])
                                    /\ job[i].ready \in {"Downloaded", "Downloading"}}
             jobs == Without(settled, done)
  <2>1. /\ queue' = queue \ done
        /\ \/ pc' = "git" /\ job' = jobs
           \/ pc' = "queue" /\ job' = Checked(jobs, epoch)
    BY <1>6 DEF BatchParents
  <2>2. \A k \in Ids : settled[k] \in Job /\ Lease(settled[k]) = Lease(job[k])
    BY SettledLease DEF SettledJob
  <2>3. settled \in Jobs
    BY <2>2 DEF Jobs
  <2> HIDE DEF settled, done
  <2>4. jobs \in Jobs /\ \A k \in queue' : k \in queue /\ k \in Ids /\ Lease(jobs[k]) = Lease(job[k])
    BY <1>1, <2>1, <2>2, <2>3, WithoutType, WithoutKeeps
  <2> HIDE DEF jobs
  <2>5. CASE pc' = "git" /\ job' = jobs
    BY <1>1, <2>4, <2>5, QuietPlaces
  <2>6. CASE pc' = "queue" /\ job' = Checked(jobs, epoch)
    <3>1. \A l \in Layers, k \in queue' : With(l, k)' =>
            /\ k \in queue /\ With(l, k)
            /\ Lease(jobs[k]) = Lease(job[k]) /\ born'[k] = born[k]
            /\ l = "Encode" => epoch = epoch /\ epoch' = epoch
      BY <1>1, <1>2, <2>4
    <3>2. Served'
      BY <2>4, <2>6, <3>1, ServedChecked DEF PlacesInv
    <3>3. Fresh'
      BY <1>1, <1>2, <2>6, FreshStill DEF PlacesInv
    <3> QED
      BY <1>2, <2>6, <3>2, <3>3, NoWalk DEF PlacesInv
  <2> QED
    BY <2>1, <2>5, <2>6
<1> QED
  BY <1>3, <1>4, <1>5, <1>6

\* The layers work for themselves: what the loop knows of their jobs stays.
LEMMA WorkersPlaces ==
  ASSUME Typed, PlacesInv, WorkerStep
  PROVE  PlacesInv'
<1>1. /\ LayersTypeOK /\ Places /\ queue \subseteq Ids /\ nextId \in Nat /\ 0 \notin Ids
      /\ WorkersNext /\ UNCHANGED mainVars
  BY PnJobsAssumption DEF Typed, TypeOK, PlacesInv, WorkerStep, Ids
<1>2. Places' /\ \A l \in Layers, k \in Ids : With(l, k)' => With(l, k)
  BY <1>1, WorkersMove
<1>3. UNCHANGED <<pc, pass, queue, job, nextId>>
  BY <1>1 DEF mainVars
<1>4. born' = born
  BY <1>1, WorkersKeepTypes
<1>5. epoch' = epoch
  BY <1>1 DEF WorkersNext, EncoderNext, EncodeTake, EncodeEnd, PoolNext, PoolStart, PoolStep,
         PoolDone, Download, PoolFailed, PoolCancelled, PoolEnd, FetchTorrent, DownloadStep,
         LockTorrent, TorrentLocked, FileDone, PreviewStart, encVars
<1>6. Served'
  BY <1>1, <1>2, <1>3, <1>4, <1>5, ServedStill DEF PlacesInv, Lease
<1>7. Fresh'
  BY <1>2, <1>3 DEF PlacesInv, Fresh
<1>8. WalksHold'
  BY <1>3, <1>4 DEF PlacesInv, WalksHold, Type
<1> QED
  BY <1>2, <1>6, <1>7, <1>8 DEF PlacesInv

-----------------------------------------------------------------------------
(* The invariant *)

\* In the beginning nobody has a job and nobody has said a word.
LEMMA InitPlaces == Init => PlacesInv /\ Speaks
<1> SUFFICES ASSUME Init PROVE PlacesInv /\ Speaks
  OBVIOUS
<1>1. /\ \A l \in Layers : ret[l] = <<>>
      /\ \A p \in Pools : pend[p] = <<>> /\ \A i \in Ids : run[p][i] = "idle"
      /\ inbox = <<>> /\ cur = 0 /\ pc = "queue"
  BY DEF Init, InitWith, LayersInit
<1>2. 0 \notin Ids
  BY DEF Ids
<1>3. \A l \in Layers, i \in Ids : ~With(l, i)
  BY <1>1, <1>2, NothingSaid DEF With, Holds, Told, Pending, Tasked, Inboxed, Layers
<1>4. \A l \in Layers : Orderly(l)
  BY <1>1, NothingSaid DEF Orderly, LetsGo, InboxedOnce, PendingOnce, Told, Pending, Inboxed, Layers
<1>5. PlacesInv
  BY <1>1, <1>3, <1>4 DEF PlacesInv, Places, OneLayer, Served, Fresh, WalksHold, Init, InitWith
<1>6. Speaks
  BY <1>1 DEF Speaks
<1> QED
  BY <1>5, <1>6

\* Every step of the loop, its clients, its clocks and the layers keeps it so.
LEMMA NextPlaces ==
  ASSUME Typed, RowsInv, PlacesInv, Speaks, QueuedOweNothing, [Next]_vars
  PROVE  PlacesInv'
<1>1. CASE LoopStep
  BY <1>1, AdmitPlaces, NoRequestPlaces, MessagePlaces, WaitWalkPlaces, ProgressPlaces,
     WalkEndsPlaces, GitPlaces DEF LoopStep
<1>2. CASE ClientStep
  BY <1>2, SubmitPlaces, CancelPlaces, GitPlaces DEF ClientStep
<1>3. CASE ClockStep
  BY <1>3, ClockPlaces
<1>4. CASE WorkerStep
  BY <1>4, WorkersPlaces
<1>5. CASE UNCHANGED vars
  <2>1. UNCHANGED <<pc, pass, queue, job, nextId, born, pend, run, inbox, cur, epoch, ret>>
    BY <1>5 DEF vars, mainVars, layerVars
  <2>2. Places' /\ \A l \in Layers, k \in Ids : With(l, k)' => With(l, k)
    BY <2>1, NothingSent DEF PlacesInv
  <2>3. Served'
    BY <2>1, <2>2, ServedStill DEF PlacesInv, Typed, TypeOK, Lease
  <2>4. Fresh'
    BY <2>1, <2>2 DEF PlacesInv, Fresh
  <2>5. WalksHold'
    BY <2>1 DEF PlacesInv, WalksHold, Type
  <2> QED
    BY <2>2, <2>3, <2>4, <2>5 DEF PlacesInv
<1> QED
  BY <1>1, <1>2, <1>3, <1>4, <1>5 DEF Next
=============================================================================
