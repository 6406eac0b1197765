---------------------------- MODULE TorrentSource ----------------------------
(***************************************************************************)
(* How pnp2p comes from a magnet link to the metadata of the torrent       *)
(* (lib/torrent: client.rs resolve_magnet, tracker.rs, peer.rs             *)
(* fetch_metadata): in each round all trackers are asked for peers, then   *)
(* the peers are asked for the metadata, and the first to give it wins.    *)
(*                                                                         *)
(* Packets to and from a UDP tracker may be lost, and late; a peer is      *)
(* honest or it is not.                                                    *)
(***************************************************************************)
EXTENDS Naturals, Sequences, FiniteSets

CONSTANTS
  Trackers, UsesUdp,      \* UsesUdp: [Trackers -> BOOLEAN]
  Peers, Nature,          \* Nature: [Peers -> {"honest", "liar", "refuses", "silent", "chatters"}]
  PeersOf,                \* [Trackers -> SUBSET Peers]
  Rounds, Attempts, Connections, Blocks, Pipeline,
  Late,                   \* whether an answer may come after the next attempt
  GreetsAgain,            \* whether a peer sends its extended handshake again
  MaxLosses, MaxTrackerFaults, MaxPeerFaults

VARIABLES
  round, stage,
  tracker,   \* what is asked of each tracker, and the attempts so far
  asked, inbox,   \* requests under way to a UDP tracker, and answers in the socket
  found, grace,   \* the peers, and whether the time for further trackers runs
  peer,      \* how far the metadata of each peer has come
  cancel,    \* whether the job is cancelled
  spent

sourceVars == <<round, stage, tracker, asked, inbox, found, grace, peer, cancel, spent>>

Settled == {"done", "failed"}
NotTried == [at |-> "out", asked |-> 0, got |-> {}]
Meets(what, most) == spent[what] < most /\ spent' = [spent EXCEPT ![what] = @ + 1]
NoFaults == UNCHANGED spent

(***************************************************************************)
(* announce_all                                                            *)
(***************************************************************************)
Announcing(t) == stage = "announcing" /\ tracker[t].at \notin Settled
Tracker(t, at) == tracker' = [tracker EXCEPT ![t] = [at |-> at, attempt |-> 1]]
Add(t) == found' = found \union PeersOf[t] /\ grace' = (grace \/ PeersOf[t] # {})
\* announce_http
Http(t) ==
  /\ Announcing(t) /\ ~UsesUdp[t]
  /\ \/ Tracker(t, "done") /\ Add(t) /\ NoFaults
     \/ Meets("trackers", MaxTrackerFaults) /\ Tracker(t, "failed") /\ UNCHANGED <<found, grace>>
  /\ UNCHANGED <<round, stage, asked, inbox, peer, cancel>>

\* announce_udp and retry_udp: each of two packets is sent up to Attempts times.
NextPacket(at) == IF at = "ask" THEN "connect" ELSE "announce"
Send(t) ==
  /\ Announcing(t) /\ UsesUdp[t] /\ tracker[t].at \in {"ask", "connected"}
  /\ Tracker(t, NextPacket(tracker[t].at))
  /\ asked' = [asked EXCEPT ![t] = Append(@, NextPacket(tracker[t].at))]
  /\ UNCHANGED <<round, stage, inbox, found, grace, peer, cancel, spent>>
\* A packet arrives, and its answer; or one of them is lost.
Answer(t) ==
  /\ asked[t] # <<>> /\ asked' = [asked EXCEPT ![t] = Tail(@)]
  /\ \/ inbox' = [inbox EXCEPT ![t] = Append(@, Head(asked[t]))] /\ NoFaults
     \/ Meets("losses", MaxLosses) /\ UNCHANGED inbox
  /\ UNCHANGED <<round, stage, tracker, found, grace, peer, cancel>>
\* The first packet in the socket is the answer: validate_udp_action.
Receive(t) ==
  /\ Announcing(t) /\ tracker[t].at \in {"connect", "announce"} /\ inbox[t] # <<>>
  /\ inbox' = [inbox EXCEPT ![t] = Tail(@)]
  /\ IF Head(inbox[t]) # tracker[t].at THEN Tracker(t, "failed") /\ UNCHANGED <<found, grace>>
     ELSE IF tracker[t].at = "connect" THEN Tracker(t, "connected") /\ UNCHANGED <<found, grace>>
     ELSE Tracker(t, "done") /\ Add(t)
  /\ UNCHANGED <<round, stage, asked, peer, cancel, spent>>
RetriesOnce(n) == n < Attempts - 1
Retries(n) == n < Attempts
TimedOut(t) ==
  /\ Announcing(t) /\ tracker[t].at \in {"connect", "announce"} /\ inbox[t] = <<>>
  /\ asked[t] = <<>> \/ Late
  /\ IF Retries(tracker[t].attempt)
     THEN /\ tracker' = [tracker EXCEPT ![t].attempt = @ + 1]
          /\ asked' = [asked EXCEPT ![t] = Append(@, tracker[t].at)]
     ELSE Tracker(t, "failed") /\ UNCHANGED asked
  /\ UNCHANGED <<round, stage, inbox, found, grace, peer, cancel, spent>>

(***************************************************************************)
(* The rounds of resolve_magnet                                            *)
(***************************************************************************)
Fresh == [t \in Trackers |-> [at |-> "ask", attempt |-> 1]]
Closed == [t \in Trackers |-> <<>>]
NewRound ==
  /\ tracker' = Fresh /\ asked' = Closed /\ inbox' = Closed /\ found' = {} /\ grace' = FALSE
  /\ peer' = [p \in Peers |-> NotTried]
\* A round that failed; the wait before the next does not look at the
\* cancellation.
RoundFails ==
  /\ round' = round + 1 /\ NewRound
  /\ stage' = IF round < Rounds THEN "waiting" ELSE IF cancel THEN "cancelled" ELSE "failed"
Continue ==
  /\ stage = "waiting" /\ stage' = IF cancel THEN "cancelled" ELSE "announcing"
  /\ UNCHANGED <<round, tracker, asked, inbox, found, grace, peer, cancel, spent>>
\* All trackers have answered, or the grace after the first peers is over.
EndAnnounce ==
  /\ stage = "announcing" /\ (grace \/ \A t \in Trackers : tracker[t].at \in Settled)
  /\ IF found = {} THEN RoundFails
     ELSE /\ stage' = "fetching" /\ peer' = [p \in Peers |-> IF p \in found
                                             THEN [NotTried EXCEPT !.at = "queued"] ELSE NotTried]
          /\ UNCHANGED <<round, tracker, asked, inbox, found, grace>>
  /\ UNCHANGED <<cancel, spent>>

(***************************************************************************)
(* fetch_metadata                                                          *)
(***************************************************************************)
Working == {"greets", "fetches"}
Fetching(p, ats) == stage = "fetching" /\ peer[p].at \in ats
Peer(p, at) == peer' = [peer EXCEPT ![p].at = at]
PeersStep == UNCHANGED <<round, stage, tracker, asked, inbox, found, grace, cancel>>
Connect(p) ==
  /\ Fetching(p, {"queued"})
  /\ Cardinality({q \in Peers : peer[q].at \in Working}) < Connections
  /\ Peer(p, "greets") /\ PeersStep /\ NoFaults
\* handshake, and the extended handshake of the peer
Greet(p) ==
  /\ Fetching(p, {"greets"}) /\ Nature[p] \notin {"silent", "chatters"}
  /\ Peer(p, "fetches") /\ PeersStep /\ NoFaults
\* Blocks are requested in their order, some before the first has come.
Request(p) ==
  /\ Fetching(p, {"fetches"}) /\ ~cancel
  /\ peer[p].asked < Blocks /\ peer[p].asked - Cardinality(peer[p].got) < Pipeline
  /\ peer' = [peer EXCEPT ![p].asked = @ + 1] /\ PeersStep /\ NoFaults
\* A block that was requested comes, in any order, perhaps once more.
Block(p) ==
  /\ Fetching(p, {"fetches"}) /\ Nature[p] \in {"honest", "liar"}
  /\ \E b \in 1..peer[p].asked :
       /\ b \notin peer[p].got
       /\ peer' = [peer EXCEPT ![p].got = @ \union {b}]
  /\ PeersStep /\ NoFaults
\* The hash is that of the magnet link, or it is not.
Complete(p) ==
  /\ Fetching(p, {"fetches"}) /\ Cardinality(peer[p].got) = Blocks
  /\ Peer(p, IF Nature[p] = "honest" THEN "whole" ELSE "failed") /\ PeersStep /\ NoFaults
\* An error or a timeout; a handshake in the place of a block is an error.
Drop(p) ==
  /\ Fetching(p, Working)
  /\ \/ cancel /\ NoFaults
     \/ Nature[p] \in {"silent", "refuses"} /\ NoFaults
     \/ GreetsAgain /\ peer[p].at = "fetches" /\ NoFaults
     \/ Meets("peers", MaxPeerFaults)
  /\ Peer(p, IF cancel THEN "cancelled" ELSE "failed") /\ PeersStep

\* metadata_from_peers
EndFetch ==
  /\ stage = "fetching"
  /\ \/ /\ \E p \in Peers : peer[p].at = "whole" /\ stage' = "resolved"
        /\ UNCHANGED <<round, tracker, asked, inbox, found, grace, peer>>
     \/ /\ \E p \in Peers : peer[p].at = "cancelled" /\ stage' = "waiting"
        /\ UNCHANGED <<round, tracker, asked, inbox, found, grace, peer>>
     \/ (\A p \in found : peer[p].at = "failed") /\ RoundFails
  /\ UNCHANGED <<cancel, spent>>

Cancel ==
  /\ Meets("cancels", 1) /\ cancel' = TRUE
  /\ UNCHANGED <<round, stage, tracker, asked, inbox, found, grace, peer>>

SourceInit ==
  /\ round = 1 /\ stage = "announcing"
  /\ tracker = [t \in Trackers |-> [at |-> "ask", attempt |-> 1]]
  /\ asked = [t \in Trackers |-> <<>>] /\ inbox = [t \in Trackers |-> <<>>]
  /\ found = {} /\ grace = FALSE /\ peer = [p \in Peers |-> NotTried] /\ cancel = FALSE
  /\ spent = [losses |-> 0, trackers |-> 0, peers |-> 0, cancels |-> 0]
SourceStep ==
  \/ Continue \/ EndAnnounce \/ EndFetch
  \/ \E t \in Trackers : Http(t) \/ Send(t) \/ Answer(t) \/ Receive(t) \/ TimedOut(t)
  \/ \E p \in Peers : Connect(p) \/ Greet(p) \/ Request(p) \/ Block(p) \/ Complete(p) \/ Drop(p)
SourceNext == SourceStep \/ Cancel
SourceSpec == SourceInit /\ [][SourceNext]_sourceVars /\ WF_sourceVars(SourceStep)

-----------------------------------------------------------------------------
SourceTypeOK ==
  /\ round \in 1..Rounds + 1
  /\ stage \in {"announcing", "fetching", "waiting", "resolved", "failed", "cancelled"}
  /\ found \subseteq Peers /\ grace \in BOOLEAN /\ cancel \in BOOLEAN
  /\ \A p \in Peers : peer[p].asked \in 0..Blocks /\ peer[p].got \subseteq 1..peer[p].asked

\* A magnet link whose trackers all know an honest peer is resolved, unless the
\* job is cancelled (resolve_magnet, announce_all, retry_udp).
MagnetEnds == <>(stage \in {"resolved", "cancelled"})
=============================================================================
