------------------------------- MODULE Access -------------------------------
(***************************************************************************)
(* Who may do what: the files of the levels, in which users are named, the *)
(* file of the ranks, by which a command asks for a level, and the file of *)
(* the API's tokens; the gate before every command, the commands that      *)
(* change these files, and the requests that present a token (bin/pndc.rs, *)
(* helpers/handlers/changerank.rs, auth.rs, remove.rs, gentoken.rs and     *)
(* token.rs, lib/http/api/core.rs and token.rs).                           *)
(*                                                                         *)
(* Each file is read, changed and written again: it is cut first and       *)
(* filled then, and nobody holds a lock meanwhile.  A line is appended in  *)
(* one step.  Whoever looks at the ranks and misses one writes the default *)
(* for it into the file.  The API remembers the tokens it read, and the    *)
(* time of the file they are from, which is no finer than a tick.          *)
(***************************************************************************)
EXTENDS Naturals, Sequences, FiniteSets, SequencesExt, TLAPS

CONSTANTS
  Users,           \* who gives commands
  Administrators,  \* those of them who administrate the Discord server
  Default,         \* the commands there are and their ranks
  ServerCommands,  \* those that configure a server
  Holders,         \* the level files at first: the users in each
  RankFiles,       \* what the file of the ranks may say at first
  TokenFiles,      \* what the file of the tokens may say at first
  NewTokens,       \* the tokens to be generated, in order
  Labels,          \* their labels
  Mask,            \* what /lstoken shows of each token there may be
  AskedRanks,      \* bound: the ranks that /changerank is asked for
  Clients, MaxAsks, MaxTicks, MaxAccessFaults  \* bounds

VARIABLES
  disk,       \* the contents of each file
  answered,   \* history: what each file says if all that was answered was done
  unsure,     \* history: the files of which one change has undone another, or half failed
  client,     \* what each user and each client of the API is about to do
  cache,      \* the tokens that the API remembers, and the time of their file
  time,       \* the time, and the time of the file of the tokens
  blurred,    \* history: that file changed in a tick in which it was looked at
  set,        \* history: the ranks that the file came with and that were asked for, by whom
  spent

accessVars == <<disk, answered, unsure, client, cache, time, blurred, set, spent>>

\* level_rank
LevelRank ==
  [l \in DOMAIN Holders |->
     CASE l = "witch" -> 4 [] l = "upper" -> 3 [] l = "admin" -> 2 [] l = "fansubber" -> 1
       [] l = "authorize" -> 0]
Levels == DOMAIN Holders
Files == Levels \union {"ranks", "tokens"}
Commands == DOMAIN Default
NoLabel == "none"
Operator == "operator"  \* who wrote the file of the ranks by hand

\* has_level_at_least, of a rank of 0 to 4
HasLevel(u, rank) == \E l \in Levels : LevelRank[l] >= rank /\ u \in disk[l]

\* ensure_command_ranks_file: what a file that misses some ranks stands for
Filled(ranks) == [c \in Commands |-> IF c \in DOMAIN ranks THEN ranks[c] ELSE Default[c]]

-----------------------------------------------------------------------------
(***************************************************************************)
(* The file of the tokens: lines that are blank, a label or a token        *)
(***************************************************************************)
Blank == [kind |-> "blank", text |-> NoLabel]
LabelLine(l) == [kind |-> "label", text |-> l]
TokenLine(t) == [kind |-> "token", text |-> t]
Written(t, l) == <<Blank>> \o (IF l = NoLabel THEN <<>> ELSE <<LabelLine(l)>>) \o <<TokenLine(t)>>

\* parse_token_entries and parse_token_file: a label is for the next token.
Entries(lines) ==
  FoldLeft(LAMBDA r, line :
             CASE line.kind = "blank" -> r
               [] line.kind = "label" -> [r EXCEPT !.label = line.text]
               [] line.kind = "token" ->
                    [found |-> Append(r.found, [token |-> line.text, label |-> r.label]),
                     label |-> NoLabel],
           [found |-> <<>>, label |-> NoLabel], lines).found
TokensIn(entries) == {entries[n].token : n \in DOMAIN entries}

\* remove_token: the line of the token, and a label right above it
WithoutToken(lines, t) ==
  FoldLeft(LAMBDA kept, line :
             IF line # TokenLine(t) THEN Append(kept, line)
             ELSE IF kept # <<>> /\ Last(kept).kind = "label" THEN Front(kept) ELSE kept,
           <<>>, lines)
\* remove_labelled_tokens and remove_masked_token: with a token that is hit goes
\* whatever stands between it and the token before.
Without(lines, Hit(_, _)) ==
  LET Step(r, line) ==
        CASE line.kind = "label" ->
               [r EXCEPT !.pending = Append(@, line), !.label = line.text]
          [] line.kind = "blank" ->
               IF r.pending = <<>> THEN [r EXCEPT !.out = Append(@, line)]
               ELSE [r EXCEPT !.pending = Append(@, line)]
          [] line.kind = "token" ->
               IF Hit(line.text, r.label) THEN [r EXCEPT !.pending = <<>>, !.label = NoLabel]
               ELSE [out |-> Append(r.out \o r.pending, line), pending |-> <<>>, label |-> NoLabel]
      end == FoldLeft(Step, [out |-> <<>>, pending |-> <<>>, label |-> NoLabel], lines)
  IN end.out \o end.pending

\* What /rmtoken names is a label, which may be on several tokens, or the mask of
\* one token; the entries that are hit.
Names(arg, e) == IF arg.by = "label" THEN e.label = arg.text ELSE Mask[e.token] = arg.text
HitIn(arg, entries) == SelectSeq(entries, LAMBDA e : Names(arg, e))
Removed(arg, lines) ==
  Without(lines, LAMBDA t, l : Names(arg, [token |-> t, label |-> l]))

-----------------------------------------------------------------------------
\* What a file says, and what is left when one is written over another that was
\* not cut since: a longer one shows behind the new one.
Says(f, contents) ==
  CASE f = "ranks" -> Filled(contents) [] f = "tokens" -> Entries(contents) [] OTHER -> contents
Cleared(f) == IF f \in {"ranks", "tokens"} THEN <<>> ELSE {}
Over(f, new, old) ==
  CASE f = "ranks" -> {new}
    [] f = "tokens" -> {new \o SubSeq(old, Len(new) + 1, Len(old))}
    [] OTHER -> {new, new \union old}

\* What a client does: op with arg, at a step, for a rank; the file it changes, what
\* it read of it and what it will write, and what it does after.  A client of the API
\* has looked at the time base, when its token was gone already or was not.
Idle == [op |-> "none", arg |-> NoLabel, at |-> "idle", rank |-> 0, file |-> "none",
         base |-> {}, new |-> {}, then |-> "idle", gone |-> FALSE]
To(k, at) == client' = [client EXCEPT ![k].at = at]
Reply(k) == client' = [client EXCEPT ![k] = Idle]
Changes(k, f, base, new, then) ==
  client' = [client EXCEPT ![k].at = "cut", ![k].file = f, ![k].base = base, ![k].new = new,
                           ![k].then = then]
Spend(kind, most) == spent[kind] < most /\ spent' = [spent EXCEPT ![kind] = @ + 1]
Same == UNCHANGED <<disk, answered, unsure, cache, time, blurred>>

\* The time of the file is that of its last change.  Somebody may have looked at
\* it, or be about to read it, in the tick of a change before.
Looked == cache.time = time.now
          \/ \E k \in Clients : client[k].at = "known" /\ client[k].base = {time.now}
Touched(f) ==
  /\ time' = IF f = "tokens" THEN [time EXCEPT !.file = time.now] ELSE time
  /\ blurred' = (blurred \/ (f = "tokens" /\ time.file = time.now /\ Looked))

AccessInit ==
  /\ \E ranks \in RankFiles, tokens \in TokenFiles :
       /\ disk = [f \in Files |-> CASE f = "ranks" -> ranks [] f = "tokens" -> tokens
                                    [] OTHER -> Holders[f]]
       /\ answered = [f \in Files |-> CASE f = "ranks" -> Filled(ranks)
                                        [] f = "tokens" -> Entries(tokens)
                                        [] OTHER -> Holders[f]]
       /\ set = {<<c, ranks[c], Operator>> : c \in DOMAIN ranks}
  /\ unsure = {} /\ client = [k \in Users \union Clients |-> Idle]
  /\ cache = [time |-> 0, tokens |-> {}] /\ time = [now |-> 1, file |-> 1] /\ blurred = FALSE
  /\ spent = [asks |-> 0, faults |-> 0, made |-> 0]

-----------------------------------------------------------------------------
(***************************************************************************)
(* The gate                                                                *)
(***************************************************************************)
\* A command, or a choice in the guide that /help opened, which is for the user
\* who opened it and shows a command to those who may give it.
Args(op) ==
  CASE op = "changerank" -> [command : Commands, rank : (0 .. 4) \intersect AskedRanks]
    [] op \in {"auth", "rm"} -> [user : Users, level : Levels]
    [] op = "gentoken" -> Labels \union {NoLabel}
    [] op = "rmtoken" -> [by : {"label"}, text : Labels]
                         \union [by : {"mask"}, text : {Mask[t] : t \in DOMAIN Mask}]
    [] OTHER -> {NoLabel}
Ask(u) ==
  /\ client[u].at = "idle" /\ Spend("asks", MaxAsks)
  /\ \/ \E op \in Commands : \E arg \in Args(op) :
          client' = [client EXCEPT ![u] = [Idle EXCEPT !.op = op, !.arg = arg, !.at = "ranks"]]
     \/ \E c \in Commands :
          client' = [client EXCEPT ![u] = [Idle EXCEPT !.op = "help", !.arg = c, !.at = "ranks"]]
  /\ Same /\ UNCHANGED set
Judged(u) == IF client[u].op = "help" THEN client[u].arg ELSE client[u].op

\* Who looks for a rank gets all of them, and writes the file anew if it missed
\* some.  A file that cannot be read misses all.
MayFail(fails) == IF fails THEN Spend("faults", MaxAccessFaults) ELSE UNCHANGED spent
ReadRanks(u) ==
  /\ client[u].at = "ranks"
  /\ \E fails \in BOOLEAN :
       /\ MayFail(fails)
       /\ LET read == IF fails THEN <<>> ELSE disk["ranks"] IN
          client' = [client EXCEPT
            ![u].rank = Filled(read)[Judged(u)],
            ![u].at = IF Filled(read) = read THEN "gate" ELSE "cut",
            ![u].file = "ranks", ![u].base = read, ![u].new = Filled(read), ![u].then = "gate"]
  /\ Same /\ UNCHANGED set

\* is_authorized, requires_server_admin and has_server_admin_access
Gate(u) ==
  /\ client[u].at = "gate"
  /\ IF /\ HasLevel(u, client[u].rank)
        /\ client[u].op \in ServerCommands => HasLevel(u, 4) \/ u \in Administrators
     THEN To(u, "do") ELSE Reply(u)
  /\ Same /\ UNCHANGED <<set, spent>>

-----------------------------------------------------------------------------
(***************************************************************************)
(* The commands                                                            *)
(***************************************************************************)
\* Nothing else here changes a file.
Other(u) ==
  /\ client[u].at = "do"
  /\ client[u].op \notin {"changerank", "auth", "rm", "gentoken", "rmtoken"}
  /\ Reply(u) /\ Same /\ UNCHANGED <<set, spent>>

\* The ranks are looked at, and filled, once more before the change.
Ranked(u, ranks) == [ranks EXCEPT ![client[u].arg.command] = client[u].arg.rank]
ChangeRank(u) ==
  /\ client[u].at = "do" /\ client[u].op = "changerank"
  /\ IF client[u].arg.command = "changerank" THEN Reply(u) /\ UNCHANGED set
     ELSE LET ranks == Filled(disk["ranks"]) IN
          /\ IF ranks = disk["ranks"] THEN Changes(u, "ranks", ranks, Ranked(u, ranks), "done")
             ELSE Changes(u, "ranks", disk["ranks"], ranks, "set")
          /\ set' = set \union {<<client[u].arg.command, client[u].arg.rank, u>>}
  /\ Same /\ UNCHANGED spent
SetRank(u) ==
  /\ client[u].at = "set"
  /\ Changes(u, "ranks", client[u].new, Ranked(u, client[u].new), "done")
  /\ Same /\ UNCHANGED <<set, spent>>

\* A level is given and taken by those who have it or a higher one.
MayGrant(u) == HasLevel(u, LevelRank[client[u].arg.level])
Auth(u) ==
  /\ client[u].at = "do" /\ client[u].op = "auth"
  /\ IF MayGrant(u) THEN To(u, "append") ELSE Reply(u)
  /\ Same /\ UNCHANGED <<set, spent>>
Take(u) ==
  /\ client[u].at = "do" /\ client[u].op = "rm"
  /\ LET l == client[u].arg.level IN
     IF MayGrant(u) /\ client[u].arg.user \in disk[l]
     THEN Changes(u, l, disk[l], disk[l] \ {client[u].arg.user}, "done") ELSE Reply(u)
  /\ Same /\ UNCHANGED <<set, spent>>

GenToken(u) ==
  /\ client[u].at = "do" /\ client[u].op = "gentoken" /\ spent.made < Len(NewTokens)
  /\ To(u, "append") /\ Same /\ UNCHANGED <<set, spent>>

\* A mask that several tokens have is refused.
RmToken(u) ==
  /\ client[u].at = "do" /\ client[u].op = "rmtoken"
  /\ LET arg == client[u].arg
         hits == Len(HitIn(arg, Entries(disk["tokens"])))
     IN IF hits = 0 \/ (arg.by = "mask" /\ hits > 1) THEN Reply(u)
        ELSE Changes(u, "tokens", disk["tokens"], Removed(arg, disk["tokens"]), "done")
  /\ Same /\ UNCHANGED <<set, spent>>

\* /auth and /gentoken add their lines to whatever the file holds.
Append1(u) ==
  /\ client[u].at = "append"
  /\ \/ /\ client[u].op = "auth"
        /\ LET l == client[u].arg.level IN
           /\ disk' = [disk EXCEPT ![l] = @ \union {client[u].arg.user}]
           /\ answered' = [answered EXCEPT ![l] = @ \union {client[u].arg.user}]
           /\ Touched(l)
        /\ UNCHANGED spent
     \/ /\ client[u].op = "gentoken" /\ spent.made < Len(NewTokens)
        /\ LET t == NewTokens[spent.made + 1] IN
           /\ disk' = [disk EXCEPT !["tokens"] = @ \o Written(t, client[u].arg)]
           /\ answered' = [answered EXCEPT !["tokens"] =
                             Append(@, [token |-> t, label |-> client[u].arg])]
        /\ Touched("tokens") /\ spent' = [spent EXCEPT !.made = @ + 1]
  /\ Reply(u)
  /\ UNCHANGED <<unsure, cache, set>>

-----------------------------------------------------------------------------
(***************************************************************************)
(* A file that is written again                                            *)
(***************************************************************************)
\* What is answered when all is written; an API client revokes its own token.
Effect(k, says) ==
  CASE client[k].op = "changerank" -> Ranked(k, says)
    [] client[k].op = "rm" -> says \ {client[k].arg.user}
    [] client[k].op = "rmtoken" -> SelectSeq(says, LAMBDA e : ~Names(client[k].arg, e))
    [] client[k].op = "revoke" -> SelectSeq(says, LAMBDA e : e.token # client[k].arg)
Goes(k) == IF client[k].then = "done" THEN Reply(k) ELSE To(k, client[k].then)

\* The file is cut, or cannot be opened: the guard of a command goes on then.
Cut(k) ==
  /\ client[k].at = "cut"
  /\ LET f == client[k].file IN
     \/ /\ disk' = [disk EXCEPT ![f] = Cleared(f)]
        /\ unsure' = unsure \union (IF Says(f, disk[f]) = Says(f, client[k].base) THEN {} ELSE {f})
        /\ Touched(f) /\ To(k, "write")
        /\ UNCHANGED <<answered, cache, set, spent>>
     \/ /\ Spend("faults", MaxAccessFaults) /\ Goes(k)
        /\ Same /\ UNCHANGED set

\* It is filled, over whatever came into it meanwhile, or stays cut.
Write(k) ==
  /\ client[k].at = "write"
  /\ LET f == client[k].file
         new == client[k].new
     IN \/ /\ \E contents \in IF disk[f] = Cleared(f) THEN {new} ELSE Over(f, new, disk[f]) :
                disk' = [disk EXCEPT ![f] = contents]
           /\ unsure' = IF disk[f] = Cleared(f) THEN unsure ELSE unsure \union {f}
           /\ answered' = IF client[k].then = "done" THEN [answered EXCEPT ![f] = Effect(k, @)]
                          ELSE answered
           /\ Touched(f) /\ UNCHANGED spent
        \/ /\ Spend("faults", MaxAccessFaults) /\ unsure' = unsure \union {f}
           /\ UNCHANGED <<disk, answered, time, blurred>>
  /\ Goes(k)
  /\ UNCHANGED <<cache, set>>

-----------------------------------------------------------------------------
(***************************************************************************)
(* The requests to the API                                                 *)
(***************************************************************************)
\* auth, of a token that was made: the time of the file is looked at, and then the
\* cache is, which is read anew if it is of another time.
Request(k) ==
  /\ client[k].at = "idle" /\ Spend("asks", MaxAsks)
  /\ \E op \in {"request", "revoke"},
        t \in DOMAIN Mask \ {NewTokens[n] : n \in spent.made + 1 .. Len(NewTokens)} :
       client' = [client EXCEPT ![k] =
                    [Idle EXCEPT !.op = op, !.arg = t, !.at = "known", !.base = {time.file},
                                 !.gone = t \notin TokensIn(answered["tokens"])]]
  /\ Same /\ UNCHANGED set
Judge(k) ==
  /\ client[k].at = "known"
  /\ LET stat == CHOOSE t \in client[k].base : TRUE IN
     \E fails \in BOOLEAN :
       /\ IF cache.time = stat THEN UNCHANGED <<cache, spent>>
          ELSE /\ MayFail(fails)
               /\ cache' = [time |-> stat,
                            tokens |-> IF fails THEN {} ELSE TokensIn(Entries(disk["tokens"]))]
       /\ IF client[k].arg \in cache'.tokens THEN To(k, "accepted") ELSE Reply(k)
  /\ UNCHANGED <<disk, answered, unsure, time, blurred, set>>
Serve(k) ==
  /\ client[k].at = "accepted" /\ client[k].op = "request"
  /\ Reply(k) /\ Same /\ UNCHANGED <<set, spent>>
Revoke(k) ==
  /\ client[k].at = "accepted" /\ client[k].op = "revoke"
  /\ LET lines == disk["tokens"] IN
     IF TokenLine(client[k].arg) \in ToSet(lines)
     THEN Changes(k, "tokens", lines, WithoutToken(lines, client[k].arg), "done") ELSE Reply(k)
  /\ Same /\ UNCHANGED <<set, spent>>

Tick ==
  /\ time.now < MaxTicks /\ time' = [time EXCEPT !.now = @ + 1]
  /\ UNCHANGED <<disk, answered, unsure, client, cache, blurred, set, spent>>

AccessNext ==
  \/ \E u \in Users :
       \/ Ask(u) \/ ReadRanks(u) \/ Gate(u) \/ Other(u) \/ ChangeRank(u) \/ SetRank(u)
       \/ Auth(u) \/ Take(u) \/ GenToken(u) \/ RmToken(u) \/ Append1(u)
  \/ \E k \in Clients : Request(k) \/ Judge(k) \/ Serve(k) \/ Revoke(k)
  \/ \E k \in Users \union Clients : Cut(k) \/ Write(k)
  \/ Tick
AccessSpec == AccessInit /\ [][AccessNext]_accessVars

-----------------------------------------------------------------------------
\* Every file is one of its kind, and every client is at a step of its operation.
Steps == {"idle", "ranks", "gate", "do", "append", "set", "cut", "write", "known", "accepted"}
IsRanks(ranks) ==
  /\ DOMAIN ranks \subseteq Commands
  /\ \A c \in DOMAIN ranks : ranks[c] \in 0 .. 4
AccessTypeOK ==
  /\ DOMAIN disk = Files /\ DOMAIN answered = Files /\ unsure \subseteq Files
  /\ \A l \in Levels : disk[l] \subseteq Users /\ answered[l] \subseteq Users
  /\ IsRanks(disk["ranks"]) /\ answered["ranks"] \in [Commands -> 0 .. 4]
  /\ \A k \in Users \union Clients : client[k].at \in Steps /\ client[k].rank \in 0 .. 4
  /\ cache.tokens \subseteq DOMAIN Mask /\ cache.time <= time.file /\ time.file <= time.now

\* The answers hold: a file that nobody is writing, and of which no change met
\* another, says what the commands and requests that were answered left in it, each
\* token with the label it was given (changerank.rs, remove.rs, token.rs).
Writing(f) == \E k \in Users \union Clients : client[k].at = "write" /\ client[k].file = f
AnswersHold == \A f \in Files \ unsure : Writing(f) \/ Says(f, disk[f]) = answered[f]

\* No rank comes from nowhere: whatever races and failures there are, each rank that
\* is used, written or about to be is the default or one that the operator or somebody
\* set for this command, and nobody sets that of /changerank (bin/pndc.rs, changerank.rs).
Given(ranks) ==
  \A c \in DOMAIN ranks :
    ranks[c] = Default[c] \/ \E u \in Users \union {Operator} : <<c, ranks[c], u>> \in set
RanksAreGiven ==
  /\ Given(disk["ranks"]) /\ Given(answered["ranks"])
  /\ \A k \in Users \union Clients :
       client[k].file = "ranks" => Given(client[k].base) /\ Given(client[k].new)
  /\ \A u \in Users :
       client[u].at = "gate" => LET c == Judged(u) IN Given([x \in {c} |-> client[u].rank])
  /\ \A given \in set : given[1] = "changerank" => given[3] = Operator

\* A token that was revoked before a request came is refused, unless its file changed
\* twice within one tick of its clock (lib/http/api/core.rs, docs/API.md).
RevokedIsRefused ==
  \A k \in Clients :
    client[k].at = "accepted" /\ "tokens" \notin unsure /\ ~blurred => ~client[k].gone

\* What the API remembers under the time that the file has is in the file, with the
\* same exception.
CacheIsFresh ==
  ~blurred /\ cache.time = time.file => cache.tokens \subseteq TokensIn(Entries(disk["tokens"]))

-----------------------------------------------------------------------------
(***************************************************************************)
(* Proofs: no rank comes from nowhere, and the cache is fresh.  The        *)
(* invariant has a part for the files and one for each client: what it has *)
(* read and will write, the rank that it was given, and, on its way to set *)
(* a rank, that this rank was asked for.                                   *)
(***************************************************************************)
Everyone == Users \union Clients
Fields == {"op", "arg", "at", "rank", "file", "base", "new", "then", "gone"}
Toward(r, step) == r.at = step \/ (r.at \in {"cut", "write"} /\ r.then = step)
Setting(r) == Toward(r, "set") \/ (r.at \in {"cut", "write"} /\ r.file = "ranks" /\ r.then = "done")

HeldBy(k, r) ==
  /\ DOMAIN r = Fields
  /\ r.op \in {"auth", "rm"} => r.arg.level \in Levels
  /\ r.file = "ranks" => Given(r.base) /\ Given(r.new)
  /\ r.at = "ranks" => (IF r.op = "help" THEN r.arg ELSE r.op) \in Commands
  /\ Toward(r, "gate") => Given([x \in {IF r.op = "help" THEN r.arg ELSE r.op} |-> r.rank])
  /\ Setting(r) =>
       /\ k \in Users /\ r.op = "changerank" /\ r.file = "ranks"
       /\ <<r.arg.command, r.arg.rank, k>> \in set
  /\ r.at \in {"cut", "write"} => r.then \in {"gate", "set", "done"}
  /\ r.at = "known" => \E t \in 0 .. time.file : r.base = {t}

FilesHeld ==
  /\ DOMAIN disk = Files /\ DOMAIN answered = Files
  /\ Given(disk["ranks"]) /\ Given(answered["ranks"])
  /\ \A given \in set : given[1] = "changerank" => given[3] = Operator
TimeHeld ==
  /\ time = [now |-> time.now, file |-> time.file]
  /\ time.now \in Nat /\ time.file \in Nat /\ time.file <= time.now
  /\ cache.time \in Nat /\ cache.time <= time.file
  /\ CacheIsFresh
AccessInv ==
  /\ FilesHeld /\ TimeHeld
  /\ DOMAIN client = Everyone
  /\ \A k \in Everyone : HeldBy(k, client[k])

LEMMA MoreIsGiven == ASSUME NEW ranks, Given(ranks), set \subseteq set' PROVE Given(ranks)'
  BY SMT DEF Given

\* What a client is after each of the ways in which it goes on.
LEMMA IdleIs ==
  /\ DOMAIN Idle = Fields /\ Idle.at = "idle" /\ Idle.file = "none" /\ Idle.then = "idle"
  /\ Idle.op = "none"
  BY DEF Idle, Fields

LEMMA Replied ==
  ASSUME NEW k \in Everyone, DOMAIN client = Everyone, Reply(k)
  PROVE  /\ DOMAIN client' = Everyone /\ \A x \in Everyone \ {k} : client'[x] = client[x]
         /\ client'[k] = Idle
  BY DEF Reply

LEMMA Moved ==
  ASSUME NEW k \in Everyone, NEW step, DOMAIN client = Everyone, DOMAIN client[k] = Fields,
         To(k, step)
  PROVE  /\ DOMAIN client' = Everyone /\ \A x \in Everyone \ {k} : client'[x] = client[x]
         /\ DOMAIN client'[k] = Fields /\ client'[k].at = step
         /\ client'[k].op = client[k].op /\ client'[k].arg = client[k].arg
         /\ client'[k].rank = client[k].rank /\ client'[k].file = client[k].file
         /\ client'[k].base = client[k].base /\ client'[k].new = client[k].new
         /\ client'[k].then = client[k].then
<1> DEFINE r == [client[k] EXCEPT !.at = step]
<1>1. client' = [client EXCEPT ![k] = r]
  BY DEF To
<1>2. client'[k] = r
  BY <1>1
<1>3. /\ DOMAIN r = Fields /\ r.at = step /\ r.op = client[k].op /\ r.arg = client[k].arg
      /\ r.rank = client[k].rank /\ r.file = client[k].file /\ r.base = client[k].base
      /\ r.new = client[k].new /\ r.then = client[k].then
  BY DEF Fields
<1>4. DOMAIN client' = Everyone /\ \A x \in Everyone \ {k} : client'[x] = client[x]
  BY <1>1
<1> HIDE DEF r
<1> QED
  BY <1>2, <1>3, <1>4

LEMMA Changed ==
  ASSUME NEW k \in Everyone, NEW f, NEW base, NEW new, NEW then,
         DOMAIN client = Everyone, DOMAIN client[k] = Fields, Changes(k, f, base, new, then)
  PROVE  /\ DOMAIN client' = Everyone /\ \A x \in Everyone \ {k} : client'[x] = client[x]
         /\ DOMAIN client'[k] = Fields /\ client'[k].at = "cut"
         /\ client'[k].op = client[k].op /\ client'[k].arg = client[k].arg
         /\ client'[k].rank = client[k].rank /\ client'[k].file = f
         /\ client'[k].base = base /\ client'[k].new = new /\ client'[k].then = then
<1> DEFINE r == [client[k] EXCEPT !.at = "cut", !.file = f, !.base = base, !.new = new,
                                  !.then = then]
<1>1. client' = [client EXCEPT ![k] = r]
  BY DEF Changes
<1>2. client'[k] = r
  BY <1>1
<1>3. /\ DOMAIN r = Fields /\ r.at = "cut" /\ r.op = client[k].op /\ r.arg = client[k].arg
      /\ r.rank = client[k].rank /\ r.file = f /\ r.base = base
      /\ r.new = new /\ r.then = then
  BY DEF Fields
<1>4. DOMAIN client' = Everyone /\ \A x \in Everyone \ {k} : client'[x] = client[x]
  BY <1>1
<1> HIDE DEF r
<1> QED
  BY <1>2, <1>3, <1>4

\* Whoever does not step keeps what is said of him, as ranks are only added and
\* time only grows.
LEMMA OthersKeep ==
  ASSUME NEW k, HeldBy(k, client[k]), client'[k] = client[k], set \subseteq set',
         time.file \in Nat, time'.file \in Nat, time.file <= time'.file
  PROVE  HeldBy(k, client[k])'
<1>1. client[k].file = "ranks" => Given(client[k].base)' /\ Given(client[k].new)'
  BY MoreIsGiven DEF HeldBy
<1> QED
  BY <1>1 DEF HeldBy, Toward, Setting, Given

LEMMA OneSteps ==
  ASSUME NEW k \in Everyone, AccessInv, DOMAIN client' = Everyone,
         \A x \in Everyone \ {k} : client'[x] = client[x], set \subseteq set',
         FilesHeld', TimeHeld', time.file <= time'.file, HeldBy(k, client[k])'
  PROVE  AccessInv'
<1>1. time.file \in Nat /\ time'.file \in Nat
  BY DEF AccessInv, TimeHeld
<1>2. ASSUME NEW x \in Everyone \ {k}
      PROVE  HeldBy(x, client[x])'
  <2>1. HeldBy(x, client[x]) /\ client'[x] = client[x]
    BY DEF AccessInv
  <2> QED
    BY <1>1, <2>1, OthersKeep
<1> QED
  BY <1>2 DEF AccessInv

\* A step that leaves the files and the cache alone.
LEMMA QuietStep ==
  ASSUME NEW k \in Everyone, AccessInv, DOMAIN client' = Everyone,
         \A x \in Everyone \ {k} : client'[x] = client[x], Same, UNCHANGED set,
         HeldBy(k, client[k])'
  PROVE  AccessInv'
<1>1. FilesHeld'
  BY DEF AccessInv, FilesHeld, Same, Given
<1>2. TimeHeld'
  BY DEF AccessInv, TimeHeld, Same, CacheIsFresh
<1>3. time.file <= time'.file
  BY DEF AccessInv, TimeHeld, Same
<1> QED
  BY <1>1, <1>2, <1>3, OneSteps

LEMMA IdleHeld ==
  ASSUME NEW k \in Everyone, client'[k] = Idle
  PROVE  HeldBy(k, client[k])'
  BY IdleIs DEF HeldBy, Toward, Setting

LEMMA QuietReply ==
  ASSUME NEW k \in Everyone, AccessInv, Reply(k), Same, UNCHANGED set
  PROVE  AccessInv'
<1>1. DOMAIN client = Everyone
  BY DEF AccessInv
<1> QED
  BY <1>1, Replied, IdleHeld, QuietStep

\* Who goes on to a step of which nothing is said, or to one he was on his way to.
LEMMA GoesHeld ==
  ASSUME NEW k \in Everyone, NEW step, AccessInv, To(k, step), UNCHANGED set,
         step \notin {"ranks", "known", "cut"},
         step = "gate" => Toward(client[k], "gate"),
         step = "set" => Setting(client[k]),
         step = "write" => client[k].at = "cut"
  PROVE  HeldBy(k, client[k])'
<1>1. DOMAIN client = Everyone /\ HeldBy(k, client[k])
  BY DEF AccessInv
<1> DEFINE r == client'[k]
<1>2. /\ DOMAIN r = Fields /\ r.at = step
      /\ r.op = client[k].op /\ r.arg = client[k].arg
      /\ r.rank = client[k].rank /\ r.file = client[k].file
      /\ r.base = client[k].base /\ r.new = client[k].new /\ r.then = client[k].then
  BY <1>1, Moved DEF HeldBy
<1>3. r.file = "ranks" => Given(r.base) /\ Given(r.new)
  BY <1>1, <1>2 DEF HeldBy
<1>4. Toward(r, "gate") => Toward(client[k], "gate")
  BY <1>2 DEF Toward
<1>5. Setting(r) => Setting(client[k])
  BY <1>2 DEF Setting, Toward
<1> HIDE DEF r
<1>6. HeldBy(k, r)
  BY <1>1, <1>2, <1>3, <1>4, <1>5 DEF HeldBy
<1> USE DEF r
<1>7. HeldBy(k, client'[k]) /\ client'[k].at # "known"
  BY <1>2, <1>6
<1> QED
  BY <1>7 DEF HeldBy, Given, Toward, Setting

\* A file that will be written again, other than that of the ranks.
LEMMA OtherFile ==
  ASSUME NEW k \in Everyone, NEW f, NEW base, NEW new, AccessInv, f # "ranks",
         Changes(k, f, base, new, "done"), Same, UNCHANGED set
  PROVE  AccessInv'
<1>1. /\ DOMAIN client = Everyone /\ DOMAIN client[k] = Fields
      /\ client[k].op \in {"auth", "rm"} => client[k].arg.level \in Levels
  BY DEF AccessInv, HeldBy
<1>2. /\ DOMAIN client' = Everyone /\ \A x \in Everyone \ {k} : client'[x] = client[x]
      /\ DOMAIN client'[k] = Fields /\ client'[k].at = "cut" /\ client'[k].file = f
      /\ client'[k].then = "done"
      /\ client'[k].op = client[k].op /\ client'[k].arg = client[k].arg
  BY <1>1, Changed
<1>3. HeldBy(k, client[k])'
  BY <1>1, <1>2 DEF HeldBy, Toward, Setting
<1> QED
  BY <1>2, <1>3, QuietStep

\* The same for what is read of the ranks and written back.
LEMMA FilledIsGiven ==
  ASSUME NEW ranks, Given(ranks)
  PROVE  Given(Filled(ranks)) /\ DOMAIN Filled(ranks) = Commands
  BY DEF Given, Filled

LEMMA AskKeeps ==
  ASSUME "help" \notin Commands, AccessInv, NEW u \in Users, Ask(u)
  PROVE  AccessInv'
<1>1. u \in Everyone /\ DOMAIN client = Everyone
  BY DEF AccessInv, Everyone
<1>2. PICK r : /\ client' = [client EXCEPT ![u] = r]
               /\ DOMAIN r = Fields /\ r.at = "ranks" /\ r.file = "none" /\ r.then = "idle"
               /\ (IF r.op = "help" THEN r.arg ELSE r.op) \in Commands
               /\ r.op \in {"auth", "rm"} => r.arg.level \in Levels
  <2>1. CASE \E op \in Commands : \E arg \in Args(op) :
               client' = [client EXCEPT ![u] = [Idle EXCEPT !.op = op, !.arg = arg, !.at = "ranks"]]
    <3>1. PICK op \in Commands : \E arg \in Args(op) :
            client' = [client EXCEPT ![u] = [Idle EXCEPT !.op = op, !.arg = arg, !.at = "ranks"]]
      BY <2>1
    <3>5. PICK arg \in Args(op) :
            client' = [client EXCEPT ![u] = [Idle EXCEPT !.op = op, !.arg = arg, !.at = "ranks"]]
      BY <3>1
    <3>6. op \in {"auth", "rm"} => arg.level \in Levels
      BY <3>5 DEF Args
    <3> DEFINE r == [Idle EXCEPT !.op = op, !.arg = arg, !.at = "ranks"]
    <3>2. /\ DOMAIN r = Fields /\ r.at = "ranks" /\ r.file = "none" /\ r.then = "idle"
          /\ r.op = op /\ r.arg = arg
      BY IdleIs DEF Fields
    <3>3. op # "help"
      OBVIOUS
    <3>4. client' = [client EXCEPT ![u] = r]
      BY <3>5
    <3> HIDE DEF r
    <3> QED
      BY <3>2, <3>3, <3>4, <3>6
  <2>2. CASE \E c \in Commands :
               client' = [client EXCEPT ![u] =
                            [Idle EXCEPT !.op = "help", !.arg = c, !.at = "ranks"]]
    <3>1. PICK c \in Commands :
            client' = [client EXCEPT ![u] = [Idle EXCEPT !.op = "help", !.arg = c, !.at = "ranks"]]
      BY <2>2
    <3> DEFINE r == [Idle EXCEPT !.op = "help", !.arg = c, !.at = "ranks"]
    <3>2. /\ DOMAIN r = Fields /\ r.at = "ranks" /\ r.file = "none" /\ r.then = "idle"
          /\ r.op = "help" /\ r.arg = c
      BY IdleIs DEF Fields
    <3>4. client' = [client EXCEPT ![u] = r]
      BY <3>1
    <3> HIDE DEF r
    <3> QED
      BY <3>2, <3>4
  <2> QED
    BY <2>1, <2>2 DEF Ask
<1>6. client' = [client EXCEPT ![u] = r]
  BY <1>2
<1>3. /\ DOMAIN client' = Everyone /\ \A x \in Everyone \ {u} : client'[x] = client[x]
      /\ client'[u] = r
  BY <1>1, <1>6
<1>7. HeldBy(u, r)'
  BY <1>2 DEF HeldBy, Toward, Setting
<1>4. HeldBy(u, client[u])'
  BY <1>3, <1>7
<1>5. Same /\ UNCHANGED set
  BY DEF Ask
<1> QED
  BY <1>1, <1>3, <1>4, <1>5, QuietStep

LEMMA ReadRanksKeeps ==
  ASSUME AccessInv, NEW u \in Users, ReadRanks(u)
  PROVE  AccessInv'
<1>1. u \in Everyone /\ DOMAIN client = Everyone /\ HeldBy(u, client[u]) /\ Same /\ UNCHANGED set
  BY DEF AccessInv, Everyone, ReadRanks
<1>2. PICK fails \in BOOLEAN :
        LET read == IF fails THEN <<>> ELSE disk["ranks"] IN
          client' = [client EXCEPT
            ![u].rank = Filled(read)[Judged(u)],
            ![u].at = IF Filled(read) = read THEN "gate" ELSE "cut",
            ![u].file = "ranks", ![u].base = read, ![u].new = Filled(read), ![u].then = "gate"]
  BY ZenonT(30) DEF ReadRanks
<1> DEFINE read == IF fails THEN <<>> ELSE disk["ranks"]
<1> DEFINE c == Judged(u)
           full == Filled(read)
           step == IF full = read THEN "gate" ELSE "cut"
           r == [client[u] EXCEPT !.rank = full[c], !.at = step, !.file = "ranks", !.base = read,
                                  !.new = full, !.then = "gate"]
<1>3. Given(read)
  <2>1. Given(disk["ranks"])
    BY DEF AccessInv, FilesHeld
  <2>2. Given(<<>>)
    <3>1. DOMAIN <<>> = {}
      OBVIOUS
    <3> QED
      BY <3>1 DEF Given
  <2> QED
    BY <2>1, <2>2
<1>4. c \in Commands
  BY <1>1 DEF HeldBy, ReadRanks, Judged
<1>5. Given(full) /\ DOMAIN full = Commands
  BY <1>3, FilledIsGiven
<1>6. c = IF client[u].op = "help" THEN client[u].arg ELSE client[u].op
  BY DEF Judged
<1>7. step \in {"gate", "cut"}
  OBVIOUS
<1>8. client' = [client EXCEPT ![u] = r]
  BY <1>2
<1> HIDE DEF read, c, full, step
<1>9. /\ DOMAIN r = Fields /\ r.at = step /\ r.file = "ranks" /\ r.then = "gate"
      /\ r.op = client[u].op /\ r.arg = client[u].arg /\ r.base = read /\ r.new = full
      /\ r.rank = full[c]
  BY <1>1 DEF HeldBy, Fields
<1> HIDE DEF r
<1>10. /\ DOMAIN client' = Everyone /\ \A x \in Everyone \ {u} : client'[x] = client[x]
       /\ client'[u] = r
  BY <1>1, <1>8
<1>11. Given([x \in {c} |-> full[c]])
  BY <1>4, <1>5 DEF Given
<1>12. HeldBy(u, r)
  <2>1. Given([x \in {IF r.op = "help" THEN r.arg ELSE r.op} |-> r.rank])
    BY <1>6, <1>9, <1>11
  <2>2. r.op \in {"auth", "rm"} => r.arg.level \in Levels
    BY <1>1, <1>9 DEF HeldBy
  <2>3. r.at \in {"gate", "cut"}
    BY <1>7, <1>9
  <2> QED
    BY <1>3, <1>5, <1>9, <2>1, <2>2, <2>3 DEF HeldBy, Setting, Toward
<1>13. HeldBy(u, client[u])'
  BY <1>1, <1>7, <1>9, <1>10, <1>12 DEF HeldBy, Given, Toward, Setting
<1> QED
  BY <1>1, <1>10, <1>13, QuietStep

LEMMA GateKeeps ==
  ASSUME AccessInv, NEW u \in Users, Gate(u)
  PROVE  AccessInv'
<1>1. u \in Everyone /\ DOMAIN client = Everyone /\ DOMAIN client[u] = Fields
  BY DEF AccessInv, HeldBy, Everyone
<1>2. Same /\ UNCHANGED set
  BY DEF Gate
<1>3. CASE To(u, "do")
  BY <1>1, <1>2, <1>3, GoesHeld, Moved, QuietStep
<1>4. CASE Reply(u)
  BY <1>1, <1>2, <1>4, QuietReply
<1> QED
  BY <1>3, <1>4 DEF Gate

\* A command that has no rank to set, and a request that is served, end.
LEMMA EndsKeep ==
  ASSUME AccessInv, NEW k \in Everyone, Other(k) \/ Serve(k)
  PROVE  AccessInv'
  BY QuietReply DEF Other, Serve

\* What is about to be written has the rank that was asked for, which is in set.
LEMMA RankedIsGiven ==
  ASSUME NEW u \in Users, NEW ranks, Given(ranks),
         <<client[u].arg.command, client[u].arg.rank, u>> \in set
  PROVE  Given(Ranked(u, ranks))
<1> DEFINE c == client[u].arg.command
           n == client[u].arg.rank
           new == [ranks EXCEPT ![c] = n]
<1>1. /\ DOMAIN new = DOMAIN ranks
      /\ \A x \in DOMAIN ranks : new[x] = IF x = c THEN n ELSE ranks[x]
  OBVIOUS
<1>2. Given(new)
  <2> HIDE DEF new
  <2> QED
    BY <1>1 DEF Given
<1> QED
  BY <1>2 DEF Ranked

LEMMA ChangeRankKeeps ==
  ASSUME AccessInv, NEW u \in Users, ChangeRank(u)
  PROVE  AccessInv'
<1>1. u \in Everyone /\ DOMAIN client = Everyone /\ DOMAIN client[u] = Fields
  BY DEF AccessInv, HeldBy, Everyone
<1>2. Same /\ client[u].op = "changerank"
  BY DEF ChangeRank
<1>3. CASE client[u].arg.command = "changerank"
  BY <1>1, <1>2, <1>3, QuietReply DEF ChangeRank
<1>4. CASE client[u].arg.command # "changerank"
  <2> DEFINE c == client[u].arg.command
             n == client[u].arg.rank
             ranks == Filled(disk["ranks"])
  <2>1. /\ set' = set \union {<<c, n, u>>}
        /\ IF ranks = disk["ranks"] THEN Changes(u, "ranks", ranks, Ranked(u, ranks), "done")
           ELSE Changes(u, "ranks", disk["ranks"], ranks, "set")
    BY <1>4 DEF ChangeRank
  <2>2. Given(disk["ranks"])' /\ Given(answered["ranks"])'
    BY <1>2, <2>1 DEF AccessInv, FilesHeld, Same, Given
  <2>3. FilesHeld'
    <3>1. DOMAIN disk' = Files /\ DOMAIN answered' = Files
      BY <1>2 DEF AccessInv, FilesHeld, Same
    <3>2. \A given \in set' : given[1] = "changerank" => given[3] = Operator
      BY <1>4, <2>1 DEF AccessInv, FilesHeld
    <3> QED
      BY <2>2, <3>1, <3>2 DEF FilesHeld
  <2>4. TimeHeld' /\ time.file <= time'.file
    BY <1>2 DEF AccessInv, TimeHeld, Same, CacheIsFresh
  <2>5. Given(ranks) /\ DOMAIN ranks = Commands
    BY FilledIsGiven DEF AccessInv, FilesHeld
  <2> DEFINE r == client'[u]
  <2>6. /\ DOMAIN client' = Everyone /\ \A x \in Everyone \ {u} : client'[x] = client[x]
        /\ DOMAIN r = Fields /\ r.at = "cut" /\ r.op = client[u].op /\ r.arg = client[u].arg
        /\ r.file = "ranks" /\ r.then \in {"done", "set"}
        /\ \/ r.base = ranks /\ r.new = Ranked(u, ranks)
           \/ r.base = disk["ranks"] /\ r.new = ranks
    <3>1. CASE ranks = disk["ranks"]
      BY <1>1, <2>1, <3>1, Changed
    <3>2. CASE ranks # disk["ranks"]
      BY <1>1, <2>1, <3>2, Changed
    <3> QED
      BY <3>1, <3>2
  <2>7. ASSUME NEW given, Given(given)
        PROVE  \A x \in DOMAIN given :
                 given[x] = Default[x]
                 \/ \E y \in Users \union {Operator} : <<x, given[x], y>> \in set'
    BY <2>1, <2>7 DEF Given
  <2>8. \A x \in DOMAIN r.new :
          r.new[x] = Default[x]
          \/ \E y \in Users \union {Operator} : <<x, r.new[x], y>> \in set'
    <3>1. CASE r.new = ranks
      <4> HIDE DEF ranks, r
      <4> QED
        BY <2>5, <2>7, <3>1
    <3>2. CASE r.new = Ranked(u, ranks)
      <4>1. \A x \in Commands : Ranked(u, ranks)[x] = IF x = c THEN n ELSE ranks[x]
        <5> HIDE DEF ranks
        <5> QED
          BY <2>5 DEF Ranked
      <4>2. DOMAIN Ranked(u, ranks) = Commands
        <5> HIDE DEF ranks
        <5> QED
          BY <2>5 DEF Ranked
      <4>3. <<c, n, u>> \in set'
        BY <2>1
      <4> HIDE DEF r, ranks, c, n
      <4> QED
        BY <2>5, <2>7, <3>2, <4>1, <4>2, <4>3
    <3> QED
      BY <2>6, <3>1, <3>2
  <2>9. Given(disk["ranks"])
    BY DEF AccessInv, FilesHeld
  <2>10. \A x \in DOMAIN r.base :
          r.base[x] = Default[x]
          \/ \E y \in Users \union {Operator} : <<x, r.base[x], y>> \in set'
    <3> HIDE DEF r, ranks
    <3> QED
      BY <2>5, <2>6, <2>7, <2>9
  <2>11. <<r.arg.command, r.arg.rank, u>> \in set'
    BY <2>1, <2>6
  <2>12. HeldBy(u, client[u])'
    BY <1>2, <2>6, <2>8, <2>10, <2>11 DEF HeldBy, Toward, Setting, Given
  <2> QED
    BY <1>1, <2>1, <2>3, <2>4, <2>6, <2>12, OneSteps
<1> QED
  BY <1>3, <1>4

LEMMA SetRankKeeps ==
  ASSUME AccessInv, NEW u \in Users, SetRank(u)
  PROVE  AccessInv'
<1>1. u \in Everyone /\ DOMAIN client = Everyone /\ HeldBy(u, client[u]) /\ Setting(client[u])
  BY DEF AccessInv, Everyone, SetRank, Setting, Toward
<1>2. Same /\ UNCHANGED set /\ Changes(u, "ranks", client[u].new, Ranked(u, client[u].new), "done")
  BY DEF SetRank
<1>3. /\ DOMAIN client[u] = Fields /\ Given(client[u].new) /\ client[u].op = "changerank"
      /\ <<client[u].arg.command, client[u].arg.rank, u>> \in set
  BY <1>1 DEF HeldBy
<1>4. Given(Ranked(u, client[u].new))
  BY <1>3, RankedIsGiven
<1> DEFINE r == client'[u]
           new == Ranked(u, client[u].new)
<1>5. /\ DOMAIN client' = Everyone /\ \A x \in Everyone \ {u} : client'[x] = client[x]
      /\ DOMAIN r = Fields /\ r.at = "cut" /\ r.op = client[u].op /\ r.arg = client[u].arg
      /\ r.file = "ranks" /\ r.base = client[u].new /\ r.new = new /\ r.then = "done"
  BY <1>1, <1>2, <1>3, Changed
<1>6. HeldBy(u, r)
  <2> HIDE DEF r, new
  <2>1. Given(new)
    BY <1>4 DEF new
  <2> QED
    BY <1>3, <1>5, <2>1 DEF HeldBy, Toward, Setting
<1>7. HeldBy(u, client[u])'
  BY <1>2, <1>5, <1>6 DEF HeldBy, Toward, Setting, Given
<1> QED
  BY <1>1, <1>2, <1>5, <1>7, QuietStep

LEMMA GrantKeeps ==
  ASSUME {"ranks", "tokens"} \intersect Levels = {}, AccessInv, NEW u \in Users,
         Auth(u) \/ Take(u)
  PROVE  AccessInv'
<1>1. u \in Everyone /\ DOMAIN client = Everyone /\ HeldBy(u, client[u])
  BY DEF AccessInv, Everyone
<1>2. Same /\ UNCHANGED set
  BY DEF Auth, Take
<1>3. CASE Reply(u)
  BY <1>1, <1>2, <1>3, QuietReply
<1>4. CASE To(u, "append")
  BY <1>1, <1>2, <1>4, GoesHeld, Moved, QuietStep DEF HeldBy
<1>5. CASE Take(u) /\ ~Reply(u)
  <2> DEFINE l == client[u].arg.level
             new == disk[l] \ {client[u].arg.user}
  <2>1. Changes(u, l, disk[l], new, "done") /\ client[u].op = "rm"
    BY <1>5 DEF Take
  <2>2. l # "ranks"
    BY <1>1, <2>1 DEF HeldBy
  <2> HIDE DEF l, new
  <2> QED
    BY <1>1, <1>2, <2>1, <2>2, OtherFile
<1> QED
  BY <1>3, <1>4, <1>5 DEF Auth

LEMMA TokensKeep ==
  ASSUME AccessInv, NEW u \in Users, GenToken(u) \/ RmToken(u)
  PROVE  AccessInv'
<1>1. u \in Everyone /\ DOMAIN client = Everyone /\ HeldBy(u, client[u])
  BY DEF AccessInv, Everyone
<1>2. Same /\ UNCHANGED set
  BY DEF GenToken, RmToken
<1>3. CASE Reply(u)
  BY <1>1, <1>2, <1>3, QuietReply
<1>4. CASE GenToken(u)
  <2>1. To(u, "append")
    BY <1>4 DEF GenToken
  <2> QED
    BY <1>1, <1>2, <2>1, GoesHeld, Moved, QuietStep DEF HeldBy
<1>5. CASE RmToken(u) /\ ~Reply(u)
  <2> DEFINE lines == disk["tokens"]
             new == Removed(client[u].arg, lines)
  <2>1. Changes(u, "tokens", lines, new, "done")
    BY <1>5 DEF RmToken
  <2> HIDE DEF lines, new
  <2> QED
    BY <1>1, <1>2, <2>1, OtherFile
<1> QED
  BY <1>3, <1>4, <1>5

LEMMA RevokeKeeps ==
  ASSUME AccessInv, NEW k \in Clients, Revoke(k)
  PROVE  AccessInv'
<1>1. k \in Everyone /\ Same /\ UNCHANGED set
  BY DEF Everyone, Revoke
<1>2. CASE Reply(k)
  BY <1>1, <1>2, QuietReply
<1>3. CASE ~Reply(k)
  <2> DEFINE lines == disk["tokens"]
             new == WithoutToken(lines, client[k].arg)
  <2>1. Changes(k, "tokens", lines, new, "done")
    BY <1>3 DEF Revoke
  <2> HIDE DEF lines, new
  <2> QED
    BY <1>1, <2>1, OtherFile
<1> QED
  BY <1>2, <1>3

\* The file of the tokens gets a later time, or one in which somebody has looked.
LEMMA TouchedHeld ==
  ASSUME NEW f, TimeHeld, Touched(f), UNCHANGED cache,
         f # "tokens" => disk'["tokens"] = disk["tokens"]
  PROVE  TimeHeld' /\ time.file <= time'.file
<1>1. /\ time = [now |-> time.now, file |-> time.file] /\ time.now \in Nat /\ time.file \in Nat
      /\ time.file <= time.now /\ cache.time \in Nat /\ cache.time <= time.file
  BY DEF TimeHeld
<1>2. CASE f # "tokens"
  <2>1. time' = time /\ (blurred => blurred')
    BY <1>2 DEF Touched
  <2> QED
    BY <1>2, <2>1 DEF TimeHeld, CacheIsFresh
<1>3. CASE f = "tokens"
  <2>1. time' = [time EXCEPT !.file = time.now]
    BY <1>3 DEF Touched
  <2>2. time' = [now |-> time.now, file |-> time.now]
    BY <1>1, <2>1
  <2>3. time'.now = time.now /\ time'.file = time.now
    BY <2>2
  <2>4. time.file = time.now /\ cache.time = time.now => blurred'
    BY <1>3 DEF Touched, Looked
  <2>5. ASSUME ~blurred', cache'.time = time'.file
        PROVE  FALSE
    BY <1>1, <2>3, <2>4, <2>5
  <2>6. CacheIsFresh'
    BY <2>5 DEF CacheIsFresh
  <2> QED
    BY <1>1, <2>2, <2>3, <2>6 DEF TimeHeld
<1> QED
  BY <1>2, <1>3

LEMMA AppendKeeps ==
  ASSUME {"ranks", "tokens"} \intersect Levels = {}, AccessInv, NEW u \in Users, Append1(u)
  PROVE  AccessInv'
<1>1. u \in Everyone /\ DOMAIN client = Everyone /\ HeldBy(u, client[u]) /\ TimeHeld
  BY DEF AccessInv, Everyone
<1>2. Reply(u) /\ UNCHANGED <<unsure, cache, set>>
  BY DEF Append1
<1>3. PICK f : /\ DOMAIN disk' = DOMAIN disk /\ disk'["ranks"] = disk["ranks"]
               /\ DOMAIN answered' = DOMAIN answered /\ answered'["ranks"] = answered["ranks"]
               /\ Touched(f) /\ (f # "tokens" => disk'["tokens"] = disk["tokens"])
  <2>1. CASE client[u].op = "auth"
    <3> DEFINE l == client[u].arg.level
               who == client[u].arg.user
    <3>1. l \in Levels /\ l \notin {"ranks", "tokens"}
      BY <1>1, <2>1 DEF HeldBy
    <3>2. /\ disk' = [disk EXCEPT ![l] = @ \union {who}]
          /\ answered' = [answered EXCEPT ![l] = @ \union {who}] /\ Touched(l)
      BY <2>1 DEF Append1
    <3> HIDE DEF l, who
    <3> QED
      BY <3>1, <3>2
  <2>2. CASE client[u].op = "gentoken"
    <3> DEFINE t == NewTokens[spent.made + 1]
               label == client[u].arg
    <3>1. /\ disk' = [disk EXCEPT !["tokens"] = @ \o Written(t, label)]
          /\ answered' = [answered EXCEPT !["tokens"] = Append(@, [token |-> t, label |-> label])]
          /\ Touched("tokens")
      BY <2>2 DEF Append1
    <3> HIDE DEF t, label
    <3> QED
      BY <3>1
  <2> QED
    BY <2>1, <2>2 DEF Append1
<1>4. FilesHeld'
  BY <1>2, <1>3 DEF AccessInv, FilesHeld, Given
<1>5. TimeHeld' /\ time.file <= time'.file
  BY <1>1, <1>2, <1>3, TouchedHeld
<1>6. set \subseteq set'
  BY <1>2
<1> QED
  BY <1>1, <1>2, <1>4, <1>5, <1>6, Replied, IdleHeld, OneSteps

\* Whoever wrote a file is where he was going.
LEMMA GoesOn ==
  ASSUME NEW k \in Everyone, AccessInv, client[k].at \in {"cut", "write"}, Goes(k), UNCHANGED set
  PROVE  /\ DOMAIN client' = Everyone /\ \A x \in Everyone \ {k} : client'[x] = client[x]
         /\ HeldBy(k, client[k])'
<1>1. DOMAIN client = Everyone /\ HeldBy(k, client[k])
  BY DEF AccessInv
<1>2. CASE Reply(k)
  BY <1>1, <1>2, Replied, IdleHeld
<1>3. CASE To(k, client[k].then) /\ client[k].then \in {"gate", "set"}
  <2>1. client[k].then = "gate" => Toward(client[k], "gate")
    BY DEF Toward
  <2>2. client[k].then = "set" => Setting(client[k])
    BY DEF Setting, Toward
  <2> QED
    BY <1>1, <1>3, <2>1, <2>2, GoesHeld, Moved DEF HeldBy
<1> QED
  BY <1>1, <1>2, <1>3 DEF Goes, HeldBy

LEMMA CutKeeps ==
  ASSUME AccessInv, NEW k \in Everyone, Cut(k)
  PROVE  AccessInv'
<1>1. DOMAIN client = Everyone /\ HeldBy(k, client[k]) /\ client[k].at = "cut" /\ TimeHeld
  BY DEF AccessInv, Cut
<1> DEFINE f == client[k].file
<1>2. CASE Goes(k) /\ Same /\ UNCHANGED set
  BY <1>1, <1>2, GoesOn, QuietStep
<1>3. CASE /\ disk' = [disk EXCEPT ![f] = Cleared(f)] /\ Touched(f) /\ To(k, "write")
           /\ UNCHANGED <<answered, cache, set, spent>>
  <2>1. HeldBy(k, client[k])' /\ DOMAIN client' = Everyone
        /\ \A x \in Everyone \ {k} : client'[x] = client[x]
    BY <1>1, <1>3, GoesHeld, Moved DEF HeldBy
  <2>2. Given(disk'["ranks"])
    <3>1. CASE f = "ranks"
      <4>1. disk'["ranks"] = <<>>
        BY <1>3, <3>1 DEF AccessInv, FilesHeld, Cleared, Files
      <4>2. DOMAIN <<>> = {}
        OBVIOUS
      <4> QED
        BY <4>1, <4>2 DEF Given
    <3>2. CASE f # "ranks"
      <4>1. disk'["ranks"] = disk["ranks"]
        BY <1>3, <3>2 DEF AccessInv, FilesHeld, Files
      <4> QED
        BY <4>1 DEF AccessInv, FilesHeld
    <3> QED
      BY <3>1, <3>2
  <2>3. FilesHeld'
    BY <1>3, <2>2 DEF AccessInv, FilesHeld, Given
  <2>4. f # "tokens" => disk'["tokens"] = disk["tokens"]
    BY <1>3 DEF AccessInv, FilesHeld, Files
  <2> HIDE DEF f
  <2>5. TimeHeld' /\ time.file <= time'.file
    BY <1>1, <1>3, <2>4, TouchedHeld
  <2> QED
    BY <1>3, <2>1, <2>3, <2>5, OneSteps
<1> QED
  BY <1>2, <1>3 DEF Cut

LEMMA WriteKeeps ==
  ASSUME AccessInv, NEW k \in Everyone, Write(k)
  PROVE  AccessInv'
<1>1. /\ DOMAIN client = Everyone /\ HeldBy(k, client[k]) /\ client[k].at = "write" /\ TimeHeld
      /\ Goes(k) /\ UNCHANGED <<cache, set>>
  BY DEF AccessInv, Write
<1>2. /\ DOMAIN client' = Everyone /\ \A x \in Everyone \ {k} : client'[x] = client[x]
      /\ HeldBy(k, client[k])'
  BY <1>1, GoesOn
<1> DEFINE f == client[k].file
           new == client[k].new
<1>3. CASE UNCHANGED <<disk, answered, time, blurred>>
  <2>1. FilesHeld' /\ TimeHeld' /\ time.file <= time'.file
    BY <1>1, <1>3 DEF AccessInv, FilesHeld, TimeHeld, CacheIsFresh, Given
  <2> QED
    BY <1>1, <1>2, <2>1, OneSteps
<1>4. CASE /\ \E contents \in IF disk[f] = Cleared(f) THEN {new} ELSE Over(f, new, disk[f]) :
                disk' = [disk EXCEPT ![f] = contents]
           /\ answered' = IF client[k].then = "done" THEN [answered EXCEPT ![f] = Effect(k, @)]
                          ELSE answered
           /\ Touched(f)
  <2>1. PICK contents : /\ disk' = [disk EXCEPT ![f] = contents]
                        /\ f = "ranks" => contents = new
    BY <1>4 DEF Over
  <2>2. Given(disk'["ranks"]) /\ DOMAIN disk' = Files
    <3>1. CASE f = "ranks"
      <4>1. disk'["ranks"] = new
        BY <2>1, <3>1 DEF AccessInv, FilesHeld, Files
      <4> QED
        BY <1>1, <2>1, <3>1, <4>1 DEF HeldBy, AccessInv, FilesHeld
    <3>2. CASE f # "ranks"
      <4>1. disk'["ranks"] = disk["ranks"]
        BY <2>1, <3>2 DEF AccessInv, FilesHeld, Files
      <4> QED
        BY <2>1, <4>1 DEF AccessInv, FilesHeld
    <3> QED
      BY <3>1, <3>2
  <2>3. Given(answered'["ranks"]) /\ DOMAIN answered' = Files
    <3>1. CASE f = "ranks" /\ client[k].then = "done"
      <4>1. /\ k \in Users /\ client[k].op = "changerank"
            /\ <<client[k].arg.command, client[k].arg.rank, k>> \in set
        BY <1>1, <3>1 DEF HeldBy, Setting
      <4>2. Effect(k, answered["ranks"]) = Ranked(k, answered["ranks"])
        BY <4>1 DEF Effect
      <4>3. answered'["ranks"] = Ranked(k, answered["ranks"]) /\ DOMAIN answered' = Files
        BY <1>4, <3>1, <4>2 DEF AccessInv, FilesHeld, Files
      <4>4. Given(answered["ranks"])
        BY DEF AccessInv, FilesHeld
      <4> QED
        BY <4>1, <4>3, <4>4, RankedIsGiven
    <3>2. CASE ~(f = "ranks" /\ client[k].then = "done")
      <4>1. answered'["ranks"] = answered["ranks"] /\ DOMAIN answered' = Files
        BY <1>4, <3>2 DEF AccessInv, FilesHeld, Files
      <4> QED
        BY <4>1 DEF AccessInv, FilesHeld
    <3> QED
      BY <3>1, <3>2
  <2>4. FilesHeld'
    BY <1>1, <2>2, <2>3 DEF AccessInv, FilesHeld, Given
  <2>5. f # "tokens" => disk'["tokens"] = disk["tokens"]
    BY <2>1 DEF AccessInv, FilesHeld, Files
  <2> HIDE DEF f
  <2>6. TimeHeld' /\ time.file <= time'.file
    BY <1>1, <1>4, <2>5, TouchedHeld
  <2> QED
    BY <1>1, <1>2, <2>4, <2>6, OneSteps
<1> QED
  BY <1>3, <1>4 DEF Write

LEMMA RequestKeeps ==
  ASSUME AccessInv, NEW k \in Clients, Request(k)
  PROVE  AccessInv'
<1>1. k \in Everyone /\ DOMAIN client = Everyone /\ TimeHeld
  BY DEF AccessInv, Everyone
<1>2. Same /\ UNCHANGED set
  BY DEF Request
<1>3. PICK r : /\ client' = [client EXCEPT ![k] = r]
               /\ DOMAIN r = Fields /\ r.at = "known" /\ r.file = "none"
               /\ r.op \in {"request", "revoke"} /\ r.base = {time.file}
  <2>1. PICK op \in {"request", "revoke"}, t \in DOMAIN Mask :
          client' = [client EXCEPT ![k] =
                    [Idle EXCEPT !.op = op, !.arg = t, !.at = "known", !.base = {time.file},
                                 !.gone = t \notin TokensIn(answered["tokens"])]]
    BY DEF Request
  <2> DEFINE gone == t \notin TokensIn(answered["tokens"])
             r == [Idle EXCEPT !.op = op, !.arg = t, !.at = "known", !.base = {time.file},
                               !.gone = gone]
  <2>2. client' = [client EXCEPT ![k] = r]
    BY <2>1
  <2> HIDE DEF gone
  <2>3. /\ DOMAIN r = Fields /\ r.at = "known" /\ r.file = "none" /\ r.op = op
        /\ r.base = {time.file}
    BY IdleIs DEF Fields
  <2> HIDE DEF r
  <2> QED
    BY <2>2, <2>3
<1>4. /\ DOMAIN client' = Everyone /\ \A x \in Everyone \ {k} : client'[x] = client[x]
      /\ client'[k] = r
  BY <1>1, <1>3
<1>5. time.file \in 0 .. time.file /\ time' = time
  BY <1>1, <1>2 DEF TimeHeld, Same
<1>6. HeldBy(k, client[k])'
  BY <1>3, <1>4, <1>5 DEF HeldBy, Toward, Setting
<1> QED
  BY <1>1, <1>2, <1>4, <1>6, QuietStep

LEMMA JudgeKeeps ==
  ASSUME AccessInv, NEW k \in Clients, Judge(k)
  PROVE  AccessInv'
<1>1. k \in Everyone /\ DOMAIN client = Everyone /\ HeldBy(k, client[k]) /\ TimeHeld
  BY DEF AccessInv, Everyone
<1>2. UNCHANGED <<disk, answered, unsure, time, blurred, set>>
  BY DEF Judge
<1> DEFINE stat == CHOOSE t \in client[k].base : TRUE
<1>3. stat \in 0 .. time.file
  BY <1>1 DEF HeldBy, Judge
<1>4. TimeHeld'
  <2>1. CASE UNCHANGED cache
    BY <1>1, <1>2, <2>1 DEF TimeHeld, CacheIsFresh
  <2>2. PICK fails \in BOOLEAN :
          \/ UNCHANGED cache
          \/ cache' = [time |-> stat,
                       tokens |-> IF fails THEN {} ELSE TokensIn(Entries(disk["tokens"]))]
    BY DEF Judge
  <2>3. CASE cache' = [time |-> stat,
                       tokens |-> IF fails THEN {} ELSE TokensIn(Entries(disk["tokens"]))]
    <3> DEFINE there == TokensIn(Entries(disk["tokens"]))
    <3>1. cache'.time = stat /\ cache'.tokens \subseteq there
      BY <2>3
    <3>2. TokensIn(Entries(disk["tokens"]))' = there
      BY <1>2
    <3>3. CacheIsFresh'
      <4> HIDE DEF there
      <4> QED
        BY <3>1, <3>2 DEF CacheIsFresh
    <3> HIDE DEF stat, there
    <3> QED
      BY <1>1, <1>2, <1>3, <3>1, <3>3 DEF TimeHeld
  <2> QED
    BY <2>1, <2>2, <2>3
<1>5. FilesHeld'
  BY <1>2 DEF AccessInv, FilesHeld, Given
<1>6. time.file <= time'.file /\ set \subseteq set'
  BY <1>1, <1>2 DEF TimeHeld
<1>7. CASE Reply(k)
  BY <1>1, <1>4, <1>5, <1>6, <1>7, Replied, IdleHeld, OneSteps
<1>8. CASE To(k, "accepted")
  <2>1. HeldBy(k, client[k])'
    BY <1>1, <1>2, <1>8, GoesHeld
  <2> QED
    BY <1>1, <1>4, <1>5, <1>6, <1>8, <2>1, Moved, OneSteps DEF HeldBy
<1> QED
  BY <1>7, <1>8 DEF Judge

LEMMA TickKeeps ==
  ASSUME AccessInv, Tick
  PROVE  AccessInv'
<1>1. /\ time' = [time EXCEPT !.now = @ + 1]
      /\ UNCHANGED <<disk, answered, unsure, client, cache, blurred, set, spent>> /\ TimeHeld
  BY DEF AccessInv, Tick
<1>2. time' = [now |-> time.now + 1, file |-> time.file]
  BY <1>1 DEF TimeHeld
<1>3. time'.now = time.now + 1 /\ time'.file = time.file
  BY <1>2
<1>4. TimeHeld'
  BY <1>1, <1>2, <1>3 DEF TimeHeld, CacheIsFresh
<1>5. FilesHeld'
  BY <1>1 DEF AccessInv, FilesHeld, Given
<1>6. ASSUME NEW k \in Everyone
      PROVE  HeldBy(k, client[k])'
  BY <1>1, <1>3, OthersKeep DEF AccessInv, TimeHeld
<1> QED
  BY <1>1, <1>4, <1>5, <1>6 DEF AccessInv

LEMMA AccessStarts ==
  ASSUME {"ranks", "tokens"} \intersect Levels = {}, AccessInit
  PROVE  AccessInv
<1>1. PICK ranks \in RankFiles, tokens \in TokenFiles :
        /\ disk = [f \in Files |-> CASE f = "ranks" -> ranks [] f = "tokens" -> tokens
                                     [] OTHER -> Holders[f]]
        /\ answered = [f \in Files |-> CASE f = "ranks" -> Filled(ranks)
                                         [] f = "tokens" -> Entries(tokens)
                                         [] OTHER -> Holders[f]]
        /\ set = {<<c, ranks[c], Operator>> : c \in DOMAIN ranks}
  BY DEF AccessInit
<1>2. disk["ranks"] = ranks /\ answered["ranks"] = Filled(ranks)
  BY <1>1 DEF Files
<1>3. Given(ranks)
  BY <1>1 DEF Given
<1>4. FilesHeld
  BY <1>1, <1>2, <1>3, FilledIsGiven DEF FilesHeld
<1>5. time = [now |-> 1, file |-> 1] /\ cache = [time |-> 0, tokens |-> {}]
  BY DEF AccessInit
<1>6. TimeHeld
  BY <1>5 DEF TimeHeld, CacheIsFresh
<1>7. DOMAIN client = Everyone /\ \A k \in Everyone : client[k] = Idle
  BY DEF AccessInit, Everyone
<1>8. \A k \in Everyone : HeldBy(k, client[k])
  BY <1>7, IdleIs DEF HeldBy, Toward, Setting
<1> QED
  BY <1>4, <1>6, <1>7, <1>8 DEF AccessInv

LEMMA AccessSteps ==
  ASSUME "help" \notin Commands, {"ranks", "tokens"} \intersect Levels = {},
         AccessInv, [AccessNext]_accessVars
  PROVE  AccessInv'
<1>1. CASE UNCHANGED accessVars
  <2>1. FilesHeld' /\ TimeHeld'
    BY <1>1 DEF accessVars, AccessInv, FilesHeld, TimeHeld, CacheIsFresh, Given
  <2>2. ASSUME NEW k \in Everyone
        PROVE  HeldBy(k, client[k])'
    BY <1>1, OthersKeep DEF accessVars, AccessInv, TimeHeld
  <2> QED
    BY <1>1, <2>1, <2>2 DEF accessVars, AccessInv
<1>2. ASSUME NEW u \in Users,
             \/ Ask(u) \/ ReadRanks(u) \/ Gate(u) \/ Other(u) \/ ChangeRank(u) \/ SetRank(u)
             \/ Auth(u) \/ Take(u) \/ GenToken(u) \/ RmToken(u) \/ Append1(u)
      PROVE  AccessInv'
  <2>1. u \in Everyone
    BY DEF Everyone
  <2> QED
    BY <1>2, <2>1, AskKeeps, ReadRanksKeeps, GateKeeps, EndsKeep, ChangeRankKeeps, SetRankKeeps,
       GrantKeeps, TokensKeep, AppendKeeps
<1>3. ASSUME NEW k \in Clients, Request(k) \/ Judge(k) \/ Serve(k) \/ Revoke(k)
      PROVE  AccessInv'
  <2>1. k \in Everyone
    BY DEF Everyone
  <2> QED
    BY <1>3, <2>1, RequestKeeps, JudgeKeeps, EndsKeep, RevokeKeeps
<1>4. ASSUME NEW k \in Users \union Clients, Cut(k) \/ Write(k)
      PROVE  AccessInv'
  BY <1>4, CutKeeps, WriteKeeps DEF Everyone
<1> QED
  BY <1>1, <1>2, <1>3, <1>4, TickKeeps DEF AccessNext

LEMMA AccessKept ==
  ASSUME "help" \notin Commands, {"ranks", "tokens"} \intersect Levels = {}
  PROVE  AccessSpec => []AccessInv
<1>1. AccessInit => AccessInv
  BY AccessStarts
<1>2. AccessInv /\ [AccessNext]_accessVars => AccessInv'
  BY AccessSteps
<1> QED
  BY <1>1, <1>2, PTL DEF AccessSpec

\* Whatever users, levels, files and failures there are, each rank that a command is
\* judged by, or that is written, is the default or one that somebody set for that
\* command (bin/pndc.rs, changerank.rs).
THEOREM NoRankFromNowhere ==
  ASSUME "help" \notin Commands, {"ranks", "tokens"} \intersect Levels = {}
  PROVE  AccessSpec => []RanksAreGiven
<1>1. AccessInv => RanksAreGiven
  <2> SUFFICES ASSUME AccessInv
               PROVE  RanksAreGiven
    OBVIOUS
  <2>1. \A u \in Users :
          client[u].at = "gate" => LET c == Judged(u) IN Given([x \in {c} |-> client[u].rank])
    BY DEF AccessInv, Everyone, HeldBy, Toward, Judged
  <2> QED
    BY <2>1 DEF AccessInv, FilesHeld, HeldBy, Everyone, RanksAreGiven
<1> QED
  BY <1>1, AccessKept, PTL

\* What the API remembers under the time of its file is in the file, however requests
\* and changes meet (lib/http/api/core.rs).
THEOREM CacheHolds ==
  ASSUME "help" \notin Commands, {"ranks", "tokens"} \intersect Levels = {}
  PROVE  AccessSpec => []CacheIsFresh
<1>1. AccessInv => CacheIsFresh
  BY DEF AccessInv, TimeHeld
<1> QED
  BY <1>1, AccessKept, PTL
=============================================================================
