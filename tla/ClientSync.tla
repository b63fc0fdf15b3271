------------------------------ MODULE ClientSync ------------------------------
(***************************************************************************)
(* How a plugin catches up with the log of its vault: SyncEngine's         *)
(* handlers of welcome, ops and op_ack (apps/plugin/src/sync/engine.ts),   *)
(* the first sync from the manifest (initial-sync.ts), and what the server *)
(* sends for them (ws/server.ts, engine/manifest.ts).                      *)
(*                                                                         *)
(* A handler of a message runs while others run: running are those of ops  *)
(* messages that wait, for a content or for a write to be done.  A write   *)
(* takes effect when it is asked for.  The server answers the requests of  *)
(* a connection one after the other and announces accepted operations in   *)
(* any order.                                                              *)
(*                                                                         *)
(* The content that the operation with the number s brings is s.  A file   *)
(* has two names.  No operation here raises a conflict or asks for a name  *)
(* that is taken: module OpProcessor has those.                            *)
(***************************************************************************)
EXTENDS Naturals, FiniteSets, SequencesExt

CONSTANTS
    SyncFile,      \* the files, as numbers
    OpsPage,       \* operations in one ops message (1000)
    ManifestPage,  \* entries in one manifest_page (1000)
    Plans,         \* bound: what the vault's log comes to be, and for a new device or not
    MaxRelinks,    \* bound: connections that break
    MaxDropped,    \* bound: announcements that find the socket's buffer full
    MaxFaults      \* bound: the last two together

Puts == {"inline", "blob"}

Kinds == Puts \cup {"rename", "delete"}

ASSUME ClientSyncAssumption ==
    /\ SyncFile \subseteq Nat
    /\ {OpsPage, ManifestPage} \subseteq Nat \ {0}
    /\ \A p \in Plans : /\ p.log \in Seq([file : SyncFile, kind : Kinds, own : BOOLEAN])
                       /\ p.new \in BOOLEAN
    /\ {MaxRelinks, MaxDropped, MaxFaults} \subseteq Nat

VARIABLES
    plan,       \* one of Plans
    log,        \* file_ops of the vault
    owed,       \* accepted, and not yet announced or acknowledged to the device
    link,       \* "down", "joined" as the server sees it, or before that "open"
    requests,   \* the messages to the server
    answers,    \* the messages to the device
    applied,    \* device.appliedSeq
    ready,      \* the transport is ready
    catchup,    \* awaitingCatchup
    handshake,  \* handshakeComplete
    running,    \* the handlers of ops messages that wait
    firstSync,  \* InitialSyncRunner.run
    index,      \* the name of each file in the local index, or none
    vault,      \* what is at each path
    downloaded, \* device.downloadedHashes
    skipped,    \* history: an acknowledgement came before what precedes it
    overlapped, \* history: two handlers ran at once, or the first sync ran
    early,      \* history: a handshake was complete before own operations were applied
    relinks, dropped

syncVars == <<plan, log, owed, link, requests, answers, applied, ready, catchup, handshake, running,
              firstSync, index, vault, downloaded, skipped, overlapped, early, relinks, dropped>>
server == <<plan, log, owed, link>>
local == <<index, vault, downloaded>>
flags == <<ready, catchup, handshake, early>>
faulty == <<relinks, dropped>>

-----------------------------------------------------------------------------
(***************************************************************************)
(* Data.                                                                   *)
(***************************************************************************)
Names == {0, 1}

Path == SyncFile \X Names

Nothing == 0

\* The log's first n operations, as the server has them applied.
Of(f, kinds, n) == {s \in 1 .. n : log[s].file = f /\ log[s].kind \in kinds}

NameAt(f, n) == Cardinality(Of(f, {"rename"}, n)) % 2

ContentAt(f, n) ==
    LET puts == Of(f, Puts, n)
    IN  IF puts = {} \/ \E s \in Of(f, {"delete"}, n) : s > Max(puts) THEN Nothing
        ELSE Max(puts)

VaultAt(n) == [p \in Path |-> IF p[2] = NameAt(p[1], n) THEN ContentAt(p[1], n) ELSE Nothing]

\* Where an operation's content goes: newPath, that the issuer has given it.
Target(s) == <<log[s].file, NameAt(log[s].file, s)>>

NoFirstSync == [at |-> "no", cursor |-> <<>>, items |-> <<>>, watermark |-> 0]

SyncInit ==
    /\ plan \in Plans
    /\ log = <<>>
    /\ owed = {}
    /\ link = "down"
    /\ requests = <<>> /\ answers = <<>>
    /\ applied = 0
    /\ ready = FALSE /\ catchup = FALSE /\ handshake = FALSE
    /\ running = <<>>
    /\ firstSync = IF plan.new THEN [NoFirstSync EXCEPT !.at = "begins"] ELSE NoFirstSync
    /\ index = [f \in SyncFile |-> {}]
    /\ vault = [p \in Path |-> Nothing]
    /\ downloaded = {}
    /\ skipped = FALSE /\ overlapped = FALSE /\ early = FALSE
    /\ relinks = 0 /\ dropped = 0

Quiet == running = <<>> /\ firstSync.at \in {"no", "begins"}

-----------------------------------------------------------------------------
(***************************************************************************)
(* The server.                                                             *)
(***************************************************************************)
\* The next operation is accepted.
Accept(op) ==
    /\ Len(log) < Len(plan.log)
    /\ op = plan.log[Len(log) + 1]
    /\ log' = Append(log, op)
    /\ owed' = owed \cup {Len(log) + 1}

\* It is one of another device.
AcceptOther(f, kind) ==
    /\ Accept([file |-> f, kind |-> kind, own |-> FALSE])
    /\ UNCHANGED <<plan, link, requests, answers, applied, flags, running, firstSync, local, skipped,
                   overlapped, faulty>>

OwnUnanswered == \E s \in owed : log[s].own

\* The user has edited a file as it was in the vault; flushOutbox sent the operation.
AcceptOwn(f) ==
    LET path == <<f, NameAt(f, Len(log))>> IN
    /\ handshake
    /\ requests = <<>> /\ ~OwnUnanswered
    /\ vault[path] = ContentAt(f, Len(log)) /\ vault[path] # Nothing
    /\ Accept([file |-> f, kind |-> "inline", own |-> TRUE])
    /\ vault' = [vault EXCEPT ![path] = Len(log) + 1]
    /\ UNCHANGED <<plan, link, requests, answers, applied, flags, running, firstSync, index,
                   downloaded, skipped, overlapped, faulty>>

OpsSince(since) ==
    LET last == IF since + OpsPage < Len(log) THEN since + OpsPage ELSE Len(log)
    IN  [t |-> "ops", ops |-> [i \in 1 .. last - since |-> since + i],
         more |-> last - since = OpsPage]

\* broadcastOps, or op_ack for the device's own; or the connection has gone.
Announce(s) ==
    /\ owed' = owed \ {s}
    /\ IF link # "joined" THEN UNCHANGED <<answers, dropped>>
       ELSE IF log[s].own
       THEN answers' = Append(answers, [t |-> "ack", seq |-> s]) /\ UNCHANGED dropped
       ELSE \/ /\ answers' = Append(answers, [t |-> "ops", ops |-> <<s>>, more |-> FALSE])
               /\ UNCHANGED dropped
            \/ /\ dropped < MaxDropped /\ relinks + dropped < MaxFaults
               /\ dropped' = dropped + 1
               /\ UNCHANGED answers
    /\ UNCHANGED <<plan, log, link, requests, applied, flags, running, firstSync, local, skipped,
                   overlapped, relinks>>

\* Where an entry stands in the manifest's order.
Key(f) == <<NameAt(f, Len(log)), f>>

After(k, l) == k[1] > l[1] \/ (k[1] = l[1] /\ k[2] > l[2])

\* listManifest: the live files after the cursor, as many as a page has.
Listed(cursor) ==
    LET live == {f \in SyncFile : ContentAt(f, Len(log)) # Nothing
                                  /\ (cursor = <<>> \/ After(Key(f), cursor))}
        sorted == SetToSortSeq(live, LAMBDA f, g : After(Key(g), Key(f)))
    IN  SubSeq(sorted, 1, IF Len(sorted) < ManifestPage THEN Len(sorted) ELSE ManifestPage)

ManifestAnswer(cursor) ==
    LET files == Listed(cursor)
    IN  [t |-> "page", watermark |-> Len(log),
         items |-> [i \in DOMAIN files |->
                      [path |-> <<files[i], NameAt(files[i], Len(log))>>,
                       content |-> ContentAt(files[i], Len(log))]],
         next |-> IF Len(files) = ManifestPage THEN Key(Last(files)) ELSE <<>>]

Answer(m) ==
    CASE m.t = "hello" -> <<[t |-> "welcome", current |-> Len(log)]>>
      [] m.t = "push" -> IF m.since < Len(log) THEN <<OpsSince(m.since)>> ELSE <<>>
      [] m.t = "get_ops" -> <<OpsSince(m.since)>>
      [] m.t = "get_manifest" -> <<ManifestAnswer(m.cursor)>>
      [] m.t = "get_content" -> <<[t |-> "content", hash |-> m.hash]>>

\* The next request of the connection.  hello has a second half, in which it
\* sends what the device has not applied.
Serve ==
    /\ link # "down"
    /\ requests # <<>> /\ ~OwnUnanswered
    /\ LET m == Head(requests)
       IN  /\ answers' = answers \o Answer(m)
           /\ requests' = IF m.t = "hello"
                          THEN <<[t |-> "push", since |-> m.since]>> \o Tail(requests)
                          ELSE Tail(requests)
           /\ link' = IF m.t = "hello" THEN "joined" ELSE link
    /\ UNCHANGED <<plan, log, owed, applied, flags, running, firstSync, local, skipped, overlapped, faulty>>

-----------------------------------------------------------------------------
(***************************************************************************)
(* The connection.                                                         *)
(***************************************************************************)
\* handleTransportState("open"): hello, then what was waiting for a socket.
Open ==
    /\ link = "down"
    /\ link' = "open"
    /\ requests' = <<[t |-> "hello", since |-> applied]>> \o requests
    /\ UNCHANGED <<plan, log, owed, answers, applied, flags, running, firstSync, local, skipped,
                   overlapped, faulty>>

Close ==
    /\ link # "down"
    /\ relinks < MaxRelinks /\ relinks + dropped < MaxFaults
    /\ relinks' = relinks + 1
    /\ link' = "down"
    /\ requests' = <<>> /\ answers' = <<>>
    /\ ready' = FALSE /\ catchup' = FALSE /\ handshake' = FALSE
    /\ UNCHANGED <<plan, log, owed, applied, running, firstSync, local, skipped, overlapped, early, dropped>>

Take(type) ==
    /\ answers # <<>>
    /\ Head(answers).t = type
    /\ answers' = Tail(answers)

-----------------------------------------------------------------------------
(***************************************************************************)
(* The handlers of the device.                                             *)
(***************************************************************************)
\* finishHandshake, with appliedSeq = seen.
FinishHandshake(seen) ==
    /\ catchup' = FALSE
    /\ handshake' = TRUE
    /\ early' = (early \/ \E s \in DOMAIN log : log[s].own /\ s > seen)

HandleWelcome ==
    /\ Take("welcome")
    /\ ready' = TRUE
    /\ IF Head(answers).current > applied
       THEN /\ catchup' = TRUE
            /\ requests' = Append(requests, [t |-> "get_ops", since |-> applied])
            /\ UNCHANGED <<handshake, early>>
       ELSE FinishHandshake(applied) /\ UNCHANGED requests
    /\ UNCHANGED <<server, applied, running, firstSync, local, skipped, overlapped, faulty>>

\* handleAck, as far as the log is concerned.
HandleAck ==
    /\ Take("ack")
    /\ applied' = Max({applied, Head(answers).seq})
    /\ skipped' = (skipped \/ Head(answers).seq > applied + 1)
    /\ UNCHANGED <<server, requests, flags, running, firstSync, local, overlapped, faulty>>

\* Mutant of IsGap: an operation that comes too early is applied.
IsGapNever(s, seen) == FALSE

IsGap(s, seen) == s # seen + 1

\* Mutant of Gap: what is missing is not asked for.
GapIgnored(seen) == [ask |-> <<>>, ends |-> FALSE]

\* What applyOps does about a gap, where handleMessage stops.
Gap(seen) == [ask |-> <<[t |-> "get_ops", since |-> seen]>>, ends |-> FALSE]

\* What is behind applyOps in handleMessage.
Through(more, seen) ==
    IF more THEN [ask |-> <<[t |-> "get_ops", since |-> seen]>>, ends |-> FALSE]
    ELSE [ask |-> <<>>, ends |-> catchup]

\* The handler is over: the others run on.
Leave(result, others, seen) ==
    /\ requests' = requests \o result.ask
    /\ running' = others
    /\ IF result.ends THEN FinishHandshake(seen) ELSE UNCHANGED <<catchup, handshake, early>>
    /\ UNCHANGED <<vault, overlapped>>

\* The vault after the write of operation s has been asked for; entry is what the
\* index has of its file.
Written(s, entry) ==
    LET f == log[s].file
        from == <<f, 1 - Target(s)[2]>>
    IN
    CASE log[s].kind = "delete" ->
           [p \in Path |-> IF p[1] = f /\ p[2] \in entry THEN Nothing ELSE vault[p]]
      [] log[s].kind = "rename" ->
           IF from[2] \in entry /\ vault[from] # Nothing
           THEN [vault EXCEPT ![from] = Nothing, ![Target(s)] = vault[from]] ELSE vault
      [] OTHER -> [vault EXCEPT ![Target(s)] = s]

\* vault.rename finds another file in its way, and the handler ends with an error.
Obstructed(s, entry) ==
    /\ log[s].kind = "rename"
    /\ entry = {1 - Target(s)[2]}
    /\ vault[Target(s)] # Nothing
    /\ vault[<<log[s].file, 1 - Target(s)[2]>>] # Nothing

HasContent(s) == s \in downloaded /\ vault[Target(s)] = s

\* applyOp of operation s by handler h: up to where it waits.
Begin(h, s, entry, others) ==
    LET fetches == log[s].kind = "blob" /\ ~HasContent(s)
    IN  /\ requests' = IF fetches THEN Append(requests, [t |-> "get_content", hash |-> s])
                       ELSE requests
        /\ running' = Append(others, [h EXCEPT !.at = IF fetches THEN "fetch" ELSE "write"])
        /\ vault' = IF fetches \/ log[s].kind = "blob" THEN vault ELSE Written(s, entry)
        /\ overlapped' = (overlapped \/ others # <<>>)
        /\ UNCHANGED <<catchup, handshake, early>>

\* What applyOps has not passed over.
NotApplied(ops, seen) ==
    LET later == {i \in DOMAIN ops : ops[i] > seen}
    IN  IF later = {} THEN <<>> ELSE SubSeq(ops, Min(later), Len(ops))

\* The loop of applyOps, with appliedSeq = seen and the index known.
Proceed(h, others, seen, known) ==
    LET rest == NotApplied(h.ops, seen)
        s == Head(rest)
        entry == known[log[s].file]
    IN  IF rest = <<>> THEN Leave(Through(h.more, seen), others, seen)
        ELSE IF IsGap(s, seen) THEN Leave(Gap(seen), others, seen)
        ELSE IF Obstructed(s, entry) THEN Leave([ask |-> <<>>, ends |-> FALSE], others, seen)
        ELSE Begin([h EXCEPT !.ops = rest], s, entry, others)

HandleOps ==
    /\ Take("ops")
    /\ LET m == Head(answers)
       IN  Proceed([ops |-> m.ops, more |-> m.more, at |-> "write"], running, applied,
                  index)
    /\ UNCHANGED <<server, applied, ready, firstSync, index, downloaded, skipped, faulty>>

\* The index after operation s has been applied.
Indexed(s) ==
    LET f == log[s].file
    IN  IF log[s].kind = "delete" \/ (log[s].kind = "rename" /\ index[f] = {}) THEN index
        ELSE [index EXCEPT ![f] = {Target(s)[2]}]

\* A write is done.
WriteDone(i) ==
    /\ running[i].at = "write"
    /\ LET s == Head(running[i].ops)
           seen == Max({applied, s})
       IN  /\ index' = Indexed(s)
           /\ applied' = seen
           /\ downloaded' = IF log[s].kind = "blob" THEN downloaded \cup {s} ELSE downloaded
           /\ Proceed(running[i], RemoveAt(running, i), seen, Indexed(s))
    /\ UNCHANGED <<server, answers, ready, firstSync, skipped, faulty>>

Coming(type, s) ==
    \/ \E i \in DOMAIN requests : requests[i].t = "get_content" /\ type = "content"
                                  /\ requests[i].hash = s
    \/ \E i \in DOMAIN requests : requests[i].t = "get_manifest" /\ type = "page"
    \/ \E i \in DOMAIN answers : answers[i].t = type /\ (type = "content" => answers[i].hash = s)

\* waitFor gives up: what it waits for went with a connection.
FetchTimesOut(i) ==
    /\ running[i].at = "fetch"
    /\ ~Coming("content", Head(running[i].ops))
    /\ running' = RemoveAt(running, i)
    /\ UNCHANGED <<server, requests, answers, applied, flags, firstSync, local, skipped,
                   overlapped, faulty>>

\* Every waiter of the content has it, and writes it.
HandleContent ==
    /\ Take("content")
    /\ LET s == Head(answers).hash
           waits == {i \in DOMAIN running : running[i].at = "fetch" /\ Head(running[i].ops) = s}
           first == firstSync.at = "fetch" /\ Head(firstSync.items).content = s
           targets == {Target(s) : i \in waits}
                        \cup IF first THEN {Head(firstSync.items).path} ELSE {}
       IN  /\ running' = [i \in DOMAIN running |->
                            IF i \in waits THEN [running[i] EXCEPT !.at = "write"]
                            ELSE running[i]]
           /\ vault' = [p \in Path |-> IF p \in targets THEN s ELSE vault[p]]
           /\ firstSync' = IF first THEN [firstSync EXCEPT !.at = "write"] ELSE firstSync
           /\ downloaded' = IF first THEN downloaded \cup {s} ELSE downloaded
    /\ UNCHANGED <<server, requests, applied, flags, index, skipped, overlapped, faulty>>

-----------------------------------------------------------------------------
(***************************************************************************)
(* InitialSyncRunner.run.                                                  *)
(***************************************************************************)
FirstSync(fs, asks) ==
    /\ firstSync' = fs
    /\ requests' = requests \o asks

\* A page is asked for.
AskPage(fs) ==
    FirstSync([fs EXCEPT !.at = "page"], <<[t |-> "get_manifest", cursor |-> fs.cursor]>>)

FirstSyncBegins ==
    /\ firstSync.at = "begins" /\ ready
    /\ AskPage(firstSync)
    /\ overlapped' = TRUE
    /\ UNCHANGED <<server, answers, applied, flags, running, local, skipped, faulty>>

\* applyManifestEntry of the first of the items, or what is behind the loop.
NextItem(fs) ==
    LET item == Head(fs.items) IN
    IF fs.items = <<>>
    THEN IF fs.cursor # <<>>
         THEN AskPage(fs) /\ UNCHANGED <<applied, vault>>
         ELSE /\ applied' = Max({applied, fs.watermark})
              /\ FirstSync(NoFirstSync, <<[t |-> "get_ops", since |-> fs.watermark]>>)
              /\ UNCHANGED vault
    ELSE IF item.content \in downloaded /\ vault[item.path] # Nothing
    THEN \* the file there is read; it is an error if that is not its content
         /\ IF vault[item.path] = item.content
            THEN FirstSync([fs EXCEPT !.at = "write"], <<>>)
            ELSE FirstSync(NoFirstSync, <<>>)
         /\ UNCHANGED <<applied, vault>>
    ELSE /\ FirstSync([fs EXCEPT !.at = "fetch"],
                      <<[t |-> "get_content", hash |-> item.content]>>)
         /\ UNCHANGED <<applied, vault>>

HandlePage ==
    /\ Take("page")
    /\ LET m == Head(answers)
       IN  IF firstSync.at = "page"
           THEN NextItem([at |-> "item", cursor |-> m.next, items |-> m.items,
                          watermark |-> m.watermark])
           ELSE UNCHANGED <<firstSync, requests, applied, vault>>
    /\ UNCHANGED <<server, flags, running, index, downloaded, skipped, overlapped, faulty>>

ItemWritten ==
    /\ firstSync.at = "write"
    /\ LET item == Head(firstSync.items)
       IN  index' = [index EXCEPT ![item.path[1]] = {item.path[2]}]
    /\ NextItem([firstSync EXCEPT !.items = Tail(@)])
    /\ UNCHANGED <<server, answers, flags, running, downloaded, skipped, overlapped, faulty>>

\* What it waits for went with a connection: the first sync ends.
FirstSyncFails ==
    /\ \/ firstSync.at = "page" /\ ~Coming("page", 0)
       \/ firstSync.at = "fetch" /\ ~Coming("content", Head(firstSync.items).content)
    /\ FirstSync(NoFirstSync, <<>>)
    /\ UNCHANGED <<server, answers, applied, flags, running, local, skipped, overlapped, faulty>>

-----------------------------------------------------------------------------
Device ==
    \/ HandleWelcome \/ HandleAck \/ HandleOps \/ HandleContent \/ HandlePage
    \/ \E i \in DOMAIN running : WriteDone(i) \/ FetchTimesOut(i)
    \/ FirstSyncBegins \/ ItemWritten \/ FirstSyncFails

Server == Serve \/ \E s \in owed : Announce(s)

SyncNext ==
    \/ \E f \in SyncFile, kind \in Kinds : AcceptOther(f, kind)
    \/ \E f \in SyncFile : AcceptOwn(f)
    \/ Server \/ Device \/ Open \/ Close

SyncProgress == Server \/ Device \/ Open

SyncSpec == SyncInit /\ [][SyncNext]_syncVars /\ WF_syncVars(SyncProgress)
-----------------------------------------------------------------------------
(***************************************************************************)
(* Properties.                                                             *)
(***************************************************************************)
\* docs/spec-core-protocol.md S2: a client that has applied the whole log has in
\* its vault what the log says.
CaughtUpFollowsLog ==
    (Quiet /\ applied = Len(log)) => vault = VaultAt(Len(log))

\* The same, as long as no acknowledgement came before what precedes it in the log,
\* no two handlers of ops ran at once, the first sync did not, and no message of before
\* ended a handshake ahead of own operations that the log has to bring back: lost
\* announcements, broken connections, gaps and pages leave nothing out.
SettledFollowsLog == (skipped \/ overlapped \/ early) \/ CaughtUpFollowsLog

\* A plugin that connects comes to the end of the log, through whatever it misses, and
\* may send its own operations then.  What is announced last may be lost: only the next
\* operation, or connection, shows that.
CatchesUp == (link # "down") ~> ((applied = Len(log) /\ handshake) \/ dropped > 0)
=============================================================================
