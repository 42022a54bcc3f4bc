----------------------- MODULE CacheTaskSync_proofs -----------------------
(* The client's cache task against the manager, for any files, faults and     *)
(* bounds: the types hold, client and server agree on the revision, what the  *)
(* upload loop predicts comes true, and a change of a file is lost in two     *)
(* places only: where the watcher misses it, and in the buffer of the initial *)
(* sync.                                                                      *)
EXTENDS CacheTaskSync, SequenceTheorems, TLAPS

Acks == [kind: {"ack"}, id: 1..batches, code: Codes, rev: Nat]

Working == state \in {"syncing", "watching"}

IsDelta(i) == c2s[i].kind = "delta"

(* A request is well formed, and its batch id was handed out.                 *)
MessagesOK ==
    /\ c2s \in Seq(Request)
    /\ \A i \in DOMAIN c2s : IsDelta(i) => c2s[i].id \in 1..batches

(* flushNow waits for flushes that are in the chain.                          *)
FlushOwed == sync.at = "flush" => sync.owed \in 1..Len(chain)

Typed == TypeOK /\ MessagesOK /\ FlushOwed

-----------------------------------------------------------------------------
(* Types.                                                                     *)

LEMMA ConstantTypes ==
  /\ MaxChanges \in Nat /\ MaxRemoves \in Nat /\ MaxInflight \in Nat
  /\ MaxOther \in Nat /\ MaxTimeouts \in Nat
  /\ Hits \subseteq Paths /\ Faults \in BOOLEAN
  /\ 0 \in Version /\ 1 \in Version
  BY ConstantsAssumption DEF Version

LEMMA InitTyped == Init => Typed
<1> SUFFICES ASSUME Init PROVE Typed
  OBVIOUS
<1>1. NewSync \in Sync
  BY ConstantTypes DEF NewSync, Sync
<1>2. local \in [Paths -> Version] /\ entries \in [Paths -> Entry]
  <2>1. {0, 1} \subseteq Version
    BY ConstantTypes
  <2>2. NoEntry \in Entry /\ [stat |-> 1, content |-> 1] \in Entry
    BY ConstantTypes DEF Entry, NoEntry
  <2>3. local \in [Paths -> {0, 1}]
    BY DEF Init
  <2>4. entries \in [Paths -> {NoEntry, [stat |-> 1, content |-> 1]}]
    BY DEF Init
  <2> QED BY <2>1, <2>2, <2>3, <2>4
<1>3. c2s = <<>> /\ s2c = <<>> /\ chain = <<>>
  BY DEF Init
<1>4. TypeOK
  <2>1. sync \in Sync /\ newest \in Version
    BY <1>1, ConstantTypes DEF Init
  <2>2. s2c \in Seq(Acks) /\ chain \in Seq(SUBSET Paths)
    BY <1>3
  <2>3. \A i \in DOMAIN c2s : c2s[i] \in Request
    BY <1>3
  <2>4. executor \in BOOLEAN /\ ready \in BOOLEAN
    BY DEF Init
  <2>5. awaited \subseteq 1..batches /\ removes \in Nat /\ rev \in Nat /\ batches \in Nat
        /\ timeouts \in Nat /\ taskRev \in Nat /\ storeRev \in Nat
    BY DEF Init
  <2>6. /\ watch \in {"off", "indexed", "on"}
        /\ index \subseteq Paths /\ heard \subseteq Paths /\ missed \subseteq Paths
        /\ dirty \subseteq Paths
        /\ state \in {"syncing", "watching", "passive", "crashed"}
        /\ buffered \subseteq Change /\ pending \subseteq Change
    BY DEF Init
  <2> QED BY <1>2, <2>1, <2>2, <2>3, <2>4, <2>5, <2>6 DEF TypeOK, Acks
<1>5. MessagesOK /\ FlushOwed
  BY <1>3 DEF Init, MessagesOK, FlushOwed, NewSync
<1> QED BY <1>4, <1>5 DEF Typed

(* What a flush finds, and what a set of removals becomes, are changes.       *)
LEMMA FoundAreChanges ==
  ASSUME Typed, NEW paths \in SUBSET Paths
  PROVE  /\ Upserted(paths) \subseteq Change
         /\ Deleted(paths) \subseteq Change
         /\ Found(paths) \subseteq Change
<1>1. local \in [Paths -> Version]
  BY DEF Typed, TypeOK
<1>2. Upserted(paths) \subseteq Change
  BY <1>1 DEF Upserted, Present, Change
<1>3. \A P \in SUBSET Paths : Deleted(P) \subseteq Change
  BY ConstantTypes DEF Deleted, Change
<1> QED BY <1>2, <1>3 DEF Found

LEMMA SendTyped ==
  ASSUME Typed, NEW base \in Nat, NEW changes \in SUBSET Change, Send(base, changes)
  PROVE  /\ c2s' \in Seq(Request) /\ Len(c2s') = Len(c2s) + 1
         /\ \A i \in DOMAIN c2s : i \in DOMAIN c2s' /\ c2s'[i] = c2s[i]
         /\ Len(c2s') \in DOMAIN c2s' /\ c2s'[Len(c2s')] = Delta(base, changes)
         /\ \A i \in DOMAIN c2s' : i \in DOMAIN c2s \/ i = Len(c2s')
         /\ batches' = batches + 1 /\ batches' \in Nat
         /\ awaited' = awaited \cup {batches'} /\ awaited' \subseteq 1..batches'
         /\ s2c \in Seq(Acks')
         /\ \A i \in DOMAIN c2s' : c2s'[i].kind = "delta" => c2s'[i].id \in 1..batches'
<1>1. batches \in Nat /\ batches' = batches + 1 /\ batches' \in Nat
  BY DEF Typed, TypeOK, Send
<1>2. Delta(base, changes) \in Request /\ Delta(base, changes).id = batches'
  BY <1>1 DEF Delta, Request
<1>3. c2s \in Seq(Request) /\ c2s' = Append(c2s, Delta(base, changes))
  BY DEF Typed, MessagesOK, Send
<1>4. /\ c2s' \in Seq(Request) /\ Len(c2s') = Len(c2s) + 1
      /\ \A i \in DOMAIN c2s : i \in DOMAIN c2s' /\ c2s'[i] = c2s[i]
      /\ Len(c2s') \in DOMAIN c2s' /\ c2s'[Len(c2s')] = Delta(base, changes)
      /\ \A i \in DOMAIN c2s' : i \in DOMAIN c2s \/ i = Len(c2s')
  BY <1>2, <1>3
<1>5. awaited' = awaited \cup {batches'} /\ awaited' \subseteq 1..batches'
  BY <1>1 DEF Typed, TypeOK, Send
<1>6. s2c \in Seq(Acks')
  <2>1. s2c \in Seq(Acks)
    BY DEF Typed, TypeOK, Acks
  <2>2. Acks \subseteq Acks'
    BY <1>1 DEF Acks
  <2> QED BY <2>1, <2>2, SeqMonotonic
<1>7. \A i \in DOMAIN c2s' : c2s'[i].kind = "delta" => c2s'[i].id \in 1..batches'
  <2>1. \A i \in DOMAIN c2s : c2s[i].kind = "delta" => c2s[i].id \in 1..batches'
    BY <1>1 DEF Typed, MessagesOK, IsDelta
  <2>2. batches' \in 1..batches'
    BY <1>1
  <2> QED BY <1>2, <1>4, <2>1, <2>2
<1> QED BY <1>1, <1>4, <1>5, <1>6, <1>7

(* The client gives up: nothing but a fault goes out, and the end of the      *)
(* connection if the process crashes.                                         *)
Silence == {<<>>, <<[kind |-> "fault"]>>}

LEMMA GiveUpTyped ==
  ASSUME Typed, NEW message \in Silence, GiveUp(message)
  PROVE  /\ c2s' \in Seq(Request) /\ Len(c2s) \in Nat /\ Len(c2s') >= Len(c2s)
         /\ \A i \in DOMAIN c2s : i \in DOMAIN c2s' /\ c2s'[i] = c2s[i]
         /\ \A i \in DOMAIN c2s' : i \in DOMAIN c2s \/ c2s'[i].kind \in {"fault", "closed"}
         /\ sync' = [NewSync EXCEPT !.at = "over"] /\ sync' \in Sync
         /\ sync'.at = "over" /\ sync'.plan = {} /\ sync'.failed = "no"
         /\ state' \in {"passive", "crashed"}
<1> DEFINE last == IF Uploading THEN <<[kind |-> "closed"]>> ELSE <<>>
           end == message \o last
<1>1. message \in Seq(Request) /\ last \in Seq(Request)
  <2>1. [kind |-> "fault"] \in Request /\ [kind |-> "closed"] \in Request
    BY DEF Request
  <2>2. <<>> \in Seq(Request) /\ \A r \in Request : <<r>> \in Seq(Request)
    OBVIOUS
  <2>3. message = <<>> \/ message = <<[kind |-> "fault"]>>
    BY DEF Silence
  <2> QED BY <2>1, <2>2, <2>3
<1>2. /\ Len(message) \in 0..1 /\ \A i \in DOMAIN message : message[i].kind = "fault"
      /\ Len(last) \in 0..1 /\ \A i \in DOMAIN last : last[i].kind = "closed"
  BY DEF Silence
<1>3. c2s \in Seq(Request) /\ c2s' = c2s \o message \o last
  BY DEF Typed, MessagesOK, GiveUp
<1> HIDE DEF last
<1>4. c2s \o message \in Seq(Request) /\ c2s' \in Seq(Request)
  BY <1>1, <1>3
<1>5. /\ Len(c2s) \in Nat /\ Len(c2s') = Len(c2s) + Len(message) + Len(last)
      /\ \A i \in 1..Len(c2s) : c2s'[i] = c2s[i]
      /\ \A i \in 1..Len(c2s') : \/ i \in 1..Len(c2s)
                                 \/ \E j \in 1..Len(message) : c2s'[i] = message[j]
                                 \/ \E j \in 1..Len(last) : c2s'[i] = last[j]
  <2>1. /\ Len(c2s) \in Nat /\ Len(message) \in Nat /\ Len(last) \in Nat
        /\ Len(c2s \o message) = Len(c2s) + Len(message)
        /\ Len(c2s') = Len(c2s \o message) + Len(last)
    BY <1>1, <1>3, <1>4
  <2>2. \A i \in 1..Len(c2s) : (c2s \o message)[i] = c2s[i] /\ c2s'[i] = (c2s \o message)[i]
    BY <1>1, <1>3, <1>4, <2>1
  <2>3. ASSUME NEW i \in 1..Len(c2s'), i \notin 1..Len(c2s)
        PROVE  \/ \E j \in 1..Len(message) : c2s'[i] = message[j]
               \/ \E j \in 1..Len(last) : c2s'[i] = last[j]
    <3>1. CASE i <= Len(c2s) + Len(message)
      <4>1. i - Len(c2s) \in 1..Len(message)
        BY <2>1, <2>3, <3>1
      <4>2. c2s'[i] = (c2s \o message)[i] /\ (c2s \o message)[i] = message[i - Len(c2s)]
        BY <1>1, <1>3, <1>4, <2>1, <2>3, <3>1
      <4> QED BY <4>1, <4>2
    <3>2. CASE ~(i <= Len(c2s) + Len(message))
      <4>1. i - Len(c2s \o message) \in 1..Len(last)
        BY <2>1, <2>3, <3>2
      <4>2. c2s'[i] = last[i - Len(c2s \o message)]
        BY <1>1, <1>3, <1>4, <2>1, <2>3, <3>2
      <4> QED BY <4>1, <4>2
    <3> QED BY <3>1, <3>2
  <2> QED BY <2>1, <2>2, <2>3
<1>6. DOMAIN c2s = 1..Len(c2s) /\ DOMAIN c2s' = 1..Len(c2s')
      /\ DOMAIN message = 1..Len(message) /\ DOMAIN last = 1..Len(last)
  BY <1>1, <1>3, <1>4
<1>7. sync' = [NewSync EXCEPT !.at = "over"] /\ sync' \in Sync
  BY ConstantTypes DEF GiveUp, NewSync, Sync
<1>8. sync'.at = "over" /\ sync'.plan = {} /\ sync'.failed = "no"
  BY <1>7 DEF NewSync
<1>9. state' \in {"passive", "crashed"}
  BY DEF GiveUp
<1>10. Len(message) \in Nat /\ Len(last) \in Nat
  BY <1>2
<1>11. Len(c2s') >= Len(c2s)
  BY <1>5, <1>10
<1>12. \A i \in DOMAIN c2s : i \in DOMAIN c2s' /\ c2s'[i] = c2s[i]
  BY <1>5, <1>6, <1>11, <1>10
<1>13. \A i \in DOMAIN c2s' : i \in DOMAIN c2s \/ c2s'[i].kind \in {"fault", "closed"}
  BY <1>2, <1>5, <1>6
<1> QED BY <1>4, <1>5, <1>7, <1>8, <1>9, <1>11, <1>12, <1>13

LEMMA GivenUpTyped ==
  ASSUME Typed, Passive \/ PassiveWithFault,
         disk' = disk, batches' = batches, timeouts' \in Nat, server' = server,
         s2c' \in Seq(Acks)
  PROVE  Typed'
<1>1. PICK message \in Silence : GiveUp(message)
  BY DEF Passive, PassiveWithFault, Silence
<1>2. TypeOK'
  <2>1. \A i \in DOMAIN c2s' : c2s'[i] \in Request
    BY <1>1, GiveUpTyped
  <2>2. sync' \in Sync /\ state' \in {"syncing", "watching", "passive", "crashed"}
    BY <1>1, GiveUpTyped
  <2> QED BY <1>1, <2>1, <2>2 DEF Typed, TypeOK, GiveUp, disk, server, Acks
<1>3. MessagesOK'
  <2>1. c2s' \in Seq(Request)
    BY <1>1, GiveUpTyped
  <2>2. ASSUME NEW i \in DOMAIN c2s', c2s'[i].kind = "delta"
        PROVE  c2s'[i].id \in 1..batches'
    <3>1. i \in DOMAIN c2s /\ c2s'[i] = c2s[i]
      BY <1>1, <2>2, GiveUpTyped
    <3> QED BY <2>2, <3>1 DEF Typed, MessagesOK, IsDelta
  <2> QED BY <2>1, <2>2 DEF MessagesOK, IsDelta
<1>4. FlushOwed'
  BY <1>1, GiveUpTyped DEF FlushOwed
<1> QED BY <1>2, <1>3, <1>4 DEF Typed

LEMMA SendKeepsTyped ==
  ASSUME Typed, NEW base \in Nat, NEW changes \in SUBSET Change, Send(base, changes),
         sync' \in Sync, FlushOwed',
         buffered' \subseteq Change, pending' \subseteq Change,
         UNCHANGED <<disk, watcher, state, rev, timeouts, s2c, server>>
  PROVE  Typed'
<1>1. \A i \in DOMAIN c2s' : c2s'[i] \in Request
  BY SendTyped
<1>2. s2c' \in Seq(Acks')
  BY SendTyped
<1>3. batches' \in Nat /\ awaited' \subseteq 1..batches'
  BY SendTyped
<1>4. TypeOK'
  BY <1>1, <1>2, <1>3 DEF Typed, TypeOK, Acks, disk, watcher, server
<1>5. MessagesOK'
  BY SendTyped DEF MessagesOK, IsDelta
<1> QED BY <1>4, <1>5 DEF Typed

LEMMA ClientStepTyped ==
  ASSUME Typed, Client
  PROVE  Typed'
<1> USE DEF Typed
<1>1. CASE WatcherIndexes
  <2>1. index' \subseteq Paths
    BY <1>1 DEF WatcherIndexes, Present
  <2> QED BY <1>1, <2>1 DEF WatcherIndexes, TypeOK, MessagesOK, FlushOwed, IsDelta, disk, machine, server
<1>2. CASE WatcherArms
  <2>1. sync' \in Sync /\ sync'.at = "walk"
    BY <1>2, ConstantTypes DEF WatcherArms, TypeOK, Sync
  <2> QED BY <1>2, <2>1 DEF WatcherArms, TypeOK, MessagesOK, FlushOwed, IsDelta, disk, server
<1>3. CASE FlushTimer
  <2>1. chain' \in Seq(SUBSET Paths) /\ Len(chain') = Len(chain) + 1 /\ Len(chain) \in Nat
    BY <1>3 DEF FlushTimer, TypeOK
  <2>2. dirty' \subseteq Paths
    BY <1>3 DEF FlushTimer
  <2> QED BY <1>3, <2>1, <2>2 DEF FlushTimer, TypeOK, MessagesOK, FlushOwed, IsDelta, disk, machine, server
<1>4. CASE Flush
  <2> DEFINE paths == Head(chain)
  <2>0. PICK unread \in SUBSET (paths \cap Present) :
           /\ missed' = missed \cup unread
           /\ index' = (index \ paths) \cup (paths \cap Present)
           /\ IF state = "syncing"
              THEN buffered' = Overlay(buffered, Found(paths \ unread)) /\ UNCHANGED pending
              ELSE pending' = Overlay(pending, Found(paths \ unread)) /\ UNCHANGED buffered
    BY <1>4 DEF Flush
  <2> DEFINE found == Found(paths \ unread)
  <2>1. /\ chain \in Seq(SUBSET Paths) /\ chain # <<>>
        /\ paths \in SUBSET Paths /\ chain' = Tail(chain) /\ chain' \in Seq(SUBSET Paths)
        /\ Len(chain) \in Nat /\ Len(chain') = Len(chain) - 1
    BY <1>4 DEF Flush, TypeOK
  <2>2. found \subseteq Change /\ index' \subseteq Paths /\ missed' \subseteq Paths
    <3>1. paths \ unread \in SUBSET Paths
      BY <2>1
    <3>2. found \subseteq Change
      BY <3>1, FoundAreChanges
    <3>3. index' \subseteq Paths /\ missed' \subseteq Paths
      BY <2>0, <2>1 DEF TypeOK
    <3> QED BY <3>2, <3>3
  <2>3. buffered' \subseteq Change /\ pending' \subseteq Change
    <3>1. \A older \in SUBSET Change : Overlay(older, found) \subseteq Change
      BY <2>2 DEF Overlay
    <3> QED BY <2>0, <3>1 DEF TypeOK
  <2>4. sync' \in Sync /\ FlushOwed'
    <3>1. CASE sync.at # "flush"
      BY <1>4, <3>1 DEF Flush, TypeOK, FlushOwed
    <3>2. CASE sync.at = "flush"
      <4>1. sync' = [sync EXCEPT !.owed = @ - 1, !.at = IF sync.owed = 1 THEN "push" ELSE @]
        BY <1>4, <3>2 DEF Flush
      <4>2. sync \in Sync /\ sync.owed \in 1..Len(chain)
        BY <3>2 DEF TypeOK, FlushOwed
      <4>3. sync.owed - 1 \in Nat
        BY <2>1, <4>2
      <4>4. sync' \in Sync /\ sync'.owed = sync.owed - 1
        BY <3>2, <4>1, <4>2, <4>3 DEF Sync
      <4>5. sync'.at = "flush" => sync.owed # 1
        BY <4>1, <4>2 DEF Sync
      <4> QED BY <2>1, <4>2, <4>4, <4>5 DEF FlushOwed
    <3> QED BY <3>1, <3>2
  <2> QED BY <1>4, <2>1, <2>2, <2>3, <2>4 DEF Flush, TypeOK, MessagesOK, IsDelta, disk, server
<1>5. CASE Walk
  <2>1. sync' \in Sync /\ sync'.at = "hash"
    <3>1. sync \in Sync /\ local \in [Paths -> Version]
      BY DEF TypeOK
    <3> QED BY <1>5, <3>1 DEF Walk, Sync, Present
  <2> QED BY <1>5, <2>1 DEF Walk, TypeOK, MessagesOK, FlushOwed, IsDelta, disk, watcher, server
<1>6. CASE SendMeta
  <2>1. sync' \in Sync /\ sync'.at \in {"upload", "meta"}
    <3>1. sync \in Sync
      BY DEF TypeOK
    <3>2. \/ sync' = [sync EXCEPT !.at = "upload"]
          \/ sync' = [sync EXCEPT !.at = "meta"]
      BY <1>6 DEF SendMeta
    <3> QED BY <3>1, <3>2 DEF Sync
  <2>2. CASE sync.deletes = {}
    BY <1>6, <2>1, <2>2 DEF SendMeta, TypeOK, MessagesOK, FlushOwed, IsDelta, disk, watcher, server
  <2>3. CASE sync.deletes # {}
    <3>1. Send(0, Deleted(sync.deletes)) /\ Deleted(sync.deletes) \in SUBSET Change
      BY <1>6, <2>3, FoundAreChanges DEF SendMeta, TypeOK, Sync
    <3> QED BY <1>6, <2>1, <3>1, SendKeepsTyped DEF SendMeta, TypeOK, FlushOwed
  <2> QED BY <2>2, <2>3
<1>7. CASE UploadCrashes
  BY <1>7, GivenUpTyped DEF UploadCrashes, TypeOK, Acks
<1>8. CASE UploadFails
  BY <1>8, GivenUpTyped DEF UploadFails, TypeOK, Acks
<1>9. CASE Uploaded
  <2>1. chain \in Seq(SUBSET Paths) /\ dirty \in SUBSET Paths
    BY DEF TypeOK
  <2>2. CASE dirty = {}
    <3>1. sync' \in Sync /\ sync'.at = "push" /\ rev' \in Nat
      BY <1>9, <2>2 DEF Uploaded, TypeOK, Sync
    <3> QED BY <1>9, <2>2, <3>1 DEF Uploaded, TypeOK, MessagesOK, FlushOwed, IsDelta, disk, server
  <2>3. CASE dirty # {}
    <3>1. /\ chain' \in Seq(SUBSET Paths) /\ Len(chain') = Len(chain) + 1
          /\ Len(chain) \in Nat /\ dirty' \subseteq Paths
      BY <1>9, <2>1, <2>3 DEF Uploaded
    <3>2. sync' \in Sync /\ sync'.owed = Len(chain) + 1 /\ rev' \in Nat
      <4>1. sync' = [sync EXCEPT !.at = "flush", !.owed = Len(chain) + 1] /\ rev' = sync.top
        BY <1>9, <2>3 DEF Uploaded
      <4>2. Len(chain) + 1 \in Nat
        BY <3>1
      <4> QED BY <4>1, <4>2 DEF TypeOK, Sync
    <3> QED BY <1>9, <3>1, <3>2 DEF Uploaded, TypeOK, MessagesOK, FlushOwed, IsDelta, disk, server
  <2> QED BY <2>2, <2>3
<1>10. CASE PushBuffered
  <2>1. sync' \in Sync /\ sync'.at \in {"complete", "pushed"} /\ buffered' = {}
    <3>1. sync \in Sync
      BY DEF TypeOK
    <3>2. /\ \/ sync' = [sync EXCEPT !.at = "complete"]
             \/ sync' = [sync EXCEPT !.at = "pushed"]
          /\ buffered' = {}
      BY <1>10 DEF PushBuffered
    <3> QED BY <3>1, <3>2 DEF Sync
  <2>2. CASE buffered = {}
    BY <1>10, <2>1, <2>2 DEF PushBuffered, TypeOK, MessagesOK, FlushOwed, IsDelta, disk, watcher, server
  <2>3. CASE buffered # {}
    <3>1. Send(rev, buffered) /\ buffered \in SUBSET Change /\ rev \in Nat
      BY <1>10, <2>3 DEF PushBuffered, TypeOK
    <3> QED BY <1>10, <2>1, <3>1, SendKeepsTyped DEF PushBuffered, TypeOK, FlushOwed
  <2> QED BY <2>2, <2>3
<1>11. CASE SendComplete
  <2>1. sync' \in Sync /\ sync'.at = "sent"
    BY <1>11 DEF SendComplete, TypeOK, Sync
  <2>2. [kind |-> "complete", base |-> rev] \in Request
    BY DEF TypeOK, Request
  <2>3. c2s' = Append(c2s, [kind |-> "complete", base |-> rev]) /\ c2s' \in Seq(Request)
    BY <1>11, <2>2 DEF SendComplete, MessagesOK
  <2>4. MessagesOK'
    BY <1>11, <2>3 DEF SendComplete, MessagesOK, IsDelta
  <2>5. \A i \in DOMAIN c2s' : c2s'[i] \in Request
    BY <2>3
  <2> QED BY <1>11, <2>1, <2>4, <2>5 DEF SendComplete, TypeOK, FlushOwed, disk, watcher, server
<1>12. CASE StartWatching
  <2>1. sync' \in Sync /\ sync'.at = "over"
    BY <1>12, ConstantTypes DEF StartWatching, Sync, NewSync
  <2> QED BY <1>12, <2>1 DEF StartWatching, TypeOK, MessagesOK, FlushOwed, IsDelta, disk, watcher, server
<1>13. CASE \E p \in Paths : Hash(p) \/ HashFails(p)
  <2>1. PICK p \in Paths : Hash(p) \/ HashFails(p)
    BY <1>13
  <2>2. CASE Hash(p)
    <3>1. PICK sha \in {local[p]} \cup {v \in {1} : p \in Hits /\ sync.walked[p] = v} :
             sync' = [sync EXCEPT !.todo = @ \ {p},
                                  !.plan = @ \cup {[path |-> p, stat |-> sync.walked[p],
                                                    content |-> local[p], sha |-> sha]}]
      BY <2>2 DEF Hash
    <3>0. sync \in Sync /\ local[p] \in Version
      BY DEF TypeOK
    <3>2. sha \in Version
      BY <3>0, ConstantTypes
    <3>3. [path |-> p, stat |-> sync.walked[p], content |-> local[p], sha |-> sha] \in Change
      BY <3>0, <3>2 DEF Sync, Change
    <3>4. sync' \in Sync /\ sync'.at = sync.at
      BY <3>0, <3>1, <3>3 DEF Sync
    <3> QED BY <2>2, <3>4 DEF Hash, TypeOK, MessagesOK, FlushOwed, IsDelta, disk, watcher, server
  <2>3. CASE HashFails(p)
    BY <2>3, GivenUpTyped DEF HashFails, TypeOK, Acks
  <2> QED BY <2>1, <2>2, <2>3
<1>14. CASE \E c \in sync.plan : SendUpload(c)
  <2>1. PICK c \in sync.plan : SendUpload(c)
    BY <1>14
  <2>2. sync' \in Sync /\ sync'.at = "upload"
    <3>1. sync.next \in Nat /\ sync.next + 1 \in Nat
      BY DEF TypeOK, Sync
    <3>2. sync' = [sync EXCEPT !.plan = @ \ {c}, !.next = @ + 1] /\ sync.at = "upload"
      BY <2>1 DEF SendUpload
    <3> QED BY <3>1, <3>2 DEF TypeOK, Sync
  <2>3. Send(sync.next, {c}) /\ {c} \in SUBSET Change /\ sync.next \in Nat
    BY <2>1 DEF SendUpload, TypeOK, Sync
  <2> QED BY <2>1, <2>2, <2>3, SendKeepsTyped DEF SendUpload, TypeOK, FlushOwed
<1>15. CASE Drain
  <2>1. Send(rev, pending) /\ pending \in SUBSET Change /\ rev \in Nat
    BY <1>15 DEF Drain, TypeOK
  <2>2. FlushOwed'
    BY <1>15 DEF Drain, FlushOwed, watcher
  <2>3. sync' \in Sync
    BY <1>15 DEF Drain, TypeOK
  <2> QED BY <1>15, <2>1, <2>2, <2>3, SendKeepsTyped DEF Drain, TypeOK
<1>16. CASE ReceiveAck
  <2> DEFINE ack == Head(s2c)
  <2>1. s2c \in Seq(Acks) /\ ack \in Acks /\ s2c' = Tail(s2c) /\ s2c' \in Seq(Acks)
    <3>1. s2c \in Seq(Acks) /\ s2c # <<>> /\ s2c' = Tail(s2c)
      BY <1>16 DEF ReceiveAck, TypeOK, Acks
    <3> QED BY <3>1
  <2>2. ack.rev \in Nat /\ ack.id \in 1..batches
    BY <2>1 DEF Acks
  <2> HIDE DEF ack
  <2>3. batches' = batches /\ timeouts' \in Nat /\ disk' = disk /\ server' = server
    BY <1>16 DEF ReceiveAck, TypeOK
  <2>4. CASE Accepted(ack)
    <3>1. sync' \in Sync /\ rev' \in Nat /\ (sync'.at = "flush" => sync.at = "flush" /\ sync'.owed = sync.owed)
      <4>1. CASE sync.at = "meta"
        BY <2>2, <2>4, <4>1 DEF Accepted, TypeOK, Sync
      <4>2. CASE sync.at = "upload"
        <5>1. sync.top \in Nat /\ rev \in Nat
          BY DEF TypeOK, Sync
        <5>2. sync' = [sync EXCEPT !.top = IF ack.rev > @ THEN ack.rev ELSE @] /\ rev' = rev
          BY <2>4, <4>2 DEF Accepted
        <5>3. (IF ack.rev > sync.top THEN ack.rev ELSE sync.top) \in Nat
          BY <2>2, <5>1
        <5> QED BY <4>2, <5>1, <5>2, <5>3 DEF TypeOK, Sync
      <4>3. CASE sync.at = "pushed"
        BY <2>2, <2>4, <4>3 DEF Accepted, TypeOK, Sync
      <4>4. CASE sync.at \notin {"meta", "upload", "pushed"}
        BY <2>2, <2>4, <4>4 DEF Accepted, TypeOK, Sync
      <4> QED BY <4>1, <4>2, <4>3, <4>4
    <3> QED BY <2>1, <2>3, <2>4, <3>1
            DEF Accepted, TypeOK, MessagesOK, FlushOwed, IsDelta, Acks, disk, watcher, server
  <2>5. CASE Passive
    BY <2>1, <2>3, <2>5, GivenUpTyped
  <2>6. CASE Refused(ack) /\ ~Passive
    <3>1. /\ awaited' = {} /\ sync' = [sync EXCEPT !.failed = "ack"] /\ sync.at = "upload"
          /\ UNCHANGED <<watcher, state, rev, buffered, pending, c2s>>
      BY <2>6 DEF Refused
    <3>2. sync' \in Sync /\ sync'.at = "upload"
      BY <3>1 DEF TypeOK, Sync
    <3> QED BY <2>1, <2>3, <3>1, <3>2
            DEF TypeOK, MessagesOK, FlushOwed, IsDelta, Acks, disk, watcher, server
  <2>7. CASE Ignored(ack)
    BY <2>1, <2>3, <2>7
       DEF Ignored, TypeOK, MessagesOK, FlushOwed, IsDelta, Acks, disk, watcher, server
  <2> QED BY <1>16, <2>4, <2>5, <2>6, <2>7 DEF ReceiveAck, ack
<1> QED BY <1>1, <1>2, <1>3, <1>4, <1>5, <1>6, <1>7, <1>8, <1>9, <1>10, <1>11, <1>12, <1>13,
           <1>14, <1>15, <1>16 DEF Client

(* The request at the head of the queue, and what the queue is without it.    *)
LEMMA HeadRequest ==
  ASSUME Typed, c2s # <<>>, c2s' = Tail(c2s)
  PROVE  /\ 1 \in DOMAIN c2s /\ Head(c2s) = c2s[1] /\ Head(c2s) \in Request
         /\ c2s' \in Seq(Request) /\ Len(c2s') = Len(c2s) - 1 /\ Len(c2s) \in Nat
         /\ DOMAIN c2s = 1..Len(c2s) /\ DOMAIN c2s' = 1..Len(c2s')
         /\ \A i \in DOMAIN c2s' : i \in Nat /\ i + 1 \in DOMAIN c2s /\ c2s'[i] = c2s[i + 1]
  BY DEF Typed, MessagesOK

(* loadManifest gives the manifest on disk, or an empty one.                  *)
LEMMA ReadManifest ==
  ASSUME Typed, NEW manifest \in ManifestsRead
  PROVE  /\ manifest.rev \in Nat /\ manifest.entries \in [Paths -> Entry]
         /\ manifest.rev \in {storeRev, 0}
         /\ \A p \in Paths : manifest.entries[p] \in {entries[p], NoEntry}
         /\ ~Faults => manifest.rev = storeRev
<1>1. NoEntry \in Entry
  BY ConstantTypes DEF NoEntry, Entry, Version
<1>2. CASE manifest = Manifest
  BY <1>2 DEF Manifest, Typed, TypeOK
<1>3. CASE manifest = EmptyManifest /\ Faults
  BY <1>1, <1>3 DEF EmptyManifest
<1> QED BY <1>2, <1>3 DEF ManifestsRead

LEMMA AppliedTyped ==
  ASSUME Typed, NEW manifest \in ManifestsRead, NEW changes \in SUBSET Change
  PROVE  Applied(manifest, changes) \in [Paths -> Entry]
<1> SUFFICES ASSUME NEW p \in Paths
             PROVE  Applied(manifest, changes)[p] \in Entry
  BY DEF Applied
<1>1. CASE \E c \in changes : c.path = p
  <2> DEFINE d == CHOOSE c \in changes : c.path = p
  <2>1. d \in Change
    BY <1>1
  <2>2. Applied(manifest, changes)[p] = [stat |-> d.stat, content |-> d.content]
    BY <1>1 DEF Applied
  <2> QED BY <2>1, <2>2 DEF Change, Entry
<1>2. CASE ~(\E c \in changes : c.path = p)
  BY <1>2, ReadManifest DEF Applied
<1> QED BY <1>1, <1>2

LEMMA ServerStepTyped ==
  ASSUME Typed, Server
  PROVE  Typed'
<1>0. ASSUME c2s # <<>>, c2s' = Tail(c2s), batches' = batches
      PROVE  MessagesOK' /\ \A i \in DOMAIN c2s' : c2s'[i] \in Request
  BY <1>0, HeadRequest DEF Typed, MessagesOK, IsDelta
<1>1. CASE ServeDelta
  <2> DEFINE d == Head(c2s)
  <2>1. d \in Request /\ d.kind = "delta" /\ d.id \in 1..batches /\ d.changes \in SUBSET Change
    BY <1>1, HeadRequest DEF ServeDelta, Typed, MessagesOK, IsDelta, Request
  <2>2. Verdict(d) \in Codes
    BY DEF Verdict, Codes
  <2>3. storeRev \in Nat /\ taskRev \in Nat /\ s2c \in Seq(Acks)
    BY DEF Typed, TypeOK, Acks
  <2>4. ASSUME NEW code \in Codes, NEW revision \in Nat, Reply(d.id, code, revision)
        PROVE  s2c' \in Seq(Acks)
    <3>1. Ack(d.id, code, revision) \in Acks
      BY <2>1 DEF Ack, Acks
    <3> QED BY <2>3, <2>4, <3>1 DEF Reply
  <2>5. \A manifest \in ManifestsRead :
          Applied(manifest, d.changes) \in [Paths -> Entry] /\ manifest.rev + 1 \in Nat
    BY <2>1, AppliedTyped, ReadManifest
  <2>6. "ok" \in Codes /\ "STORE_WRITE_FAILED" \in Codes /\ 0 \in Nat
    BY DEF Codes
  <2> HIDE DEF d
  <2>7. /\ s2c' \in Seq(Acks) /\ taskRev' \in Nat /\ storeRev' \in Nat
        /\ entries' \in [Paths -> Entry]
    BY <1>1, <2>2, <2>3, <2>4, <2>5, <2>6 DEF ServeDelta, Typed, TypeOK, d
  <2>8. /\ c2s # <<>> /\ c2s' = Tail(c2s) /\ batches' = batches
        /\ UNCHANGED <<disk, watcher, machine, executor, ready>>
    BY <1>1 DEF ServeDelta, machine
  <2> QED BY <1>0, <2>7, <2>8 DEF Typed, TypeOK, FlushOwed, Acks, disk, watcher, machine
<1>2. CASE ServeComplete
  <2>1. /\ c2s # <<>> /\ c2s' = Tail(c2s) /\ batches' = batches
        /\ ready' \in BOOLEAN /\ executor' \in BOOLEAN
    BY <1>2 DEF ServeComplete, machine, Typed, TypeOK
  <2>2. storeRev' \in Nat /\ entries' \in [Paths -> Entry]
    BY <1>2, ReadManifest DEF ServeComplete, Typed, TypeOK
  <2> QED BY <1>0, <1>2, <2>1, <2>2 DEF ServeComplete, Typed, TypeOK, FlushOwed, disk, watcher, machine
<1>3. CASE ServeFault
  <2>1. c2s # <<>> /\ c2s' = Tail(c2s) /\ batches' = batches
    BY <1>3 DEF ServeFault, machine
  <2> QED BY <1>0, <1>3, <2>1 DEF ServeFault, Typed, TypeOK, FlushOwed, disk, watcher, machine
<1> QED BY <1>1, <1>2, <1>3 DEF Server

LEMMA OtherStepTyped ==
  ASSUME Typed,
         \/ \E p \in Paths : Edit(p) \/ Remove(p)
         \/ WatcherFails \/ Sweep \/ OtherWriter
         \/ \E id \in awaited : AckTimeout(id)
         \/ UNCHANGED vars
  PROVE  Typed'
<1> USE DEF Typed
<1>1. CASE \E p \in Paths : Edit(p) \/ Remove(p)
  <2>1. PICK p \in Paths : Edit(p) \/ Remove(p)
    BY <1>1
  <2>2. newest \in Nat /\ newest >= 0 /\ removes \in Nat /\ newest \in Version
    BY ConstantTypes DEF TypeOK, Version
  <2>3. PICK v \in Version : Written(p, v) /\ newest' \in Version /\ removes' \in Nat
    <3>1. CASE Edit(p)
      <4>1. newest + 1 \in Version
        BY <2>2, <3>1, ConstantTypes DEF Edit, Version
      <4> QED BY <2>2, <3>1, <4>1 DEF Edit
    <3>2. CASE Remove(p)
      BY <2>2, <3>2, ConstantTypes DEF Remove
    <3> QED BY <2>1, <3>1, <3>2
  <2>4. /\ local' \in [Paths -> Version]
        /\ dirty' \subseteq Paths /\ heard' \subseteq Paths /\ missed' \subseteq Paths
    BY <2>3 DEF Written, Noticed, Unnoticed, TypeOK
  <2> QED BY <2>3, <2>4 DEF Written, TypeOK, MessagesOK, FlushOwed, IsDelta, machine, server
<1>2. CASE WatcherFails
  BY <1>2, GivenUpTyped DEF WatcherFails, TypeOK, Acks
<1>3. CASE Sweep
  BY <1>3 DEF Sweep, TypeOK, MessagesOK, FlushOwed, IsDelta, disk, watcher, machine
<1>4. CASE OtherWriter
  <2>1. storeRev' \in Nat /\ entries' \in [Paths -> Entry]
    BY <1>4, ReadManifest DEF OtherWriter
  <2> QED BY <1>4, <2>1 DEF OtherWriter, TypeOK, MessagesOK, FlushOwed, IsDelta, disk, watcher, machine
<1>5. CASE \E id \in awaited : AckTimeout(id)
  <2>1. PICK id \in awaited : AckTimeout(id)
    BY <1>5
  <2>2. timeouts' \in Nat /\ batches' = batches /\ s2c' = s2c /\ disk' = disk /\ server' = server
    BY <2>1 DEF AckTimeout, TypeOK
  <2>3. CASE PassiveWithFault
    BY <2>2, <2>3, GivenUpTyped DEF TypeOK, Acks
  <2>4. CASE /\ sync.at = "upload"
             /\ awaited' = {} /\ sync' = [sync EXCEPT !.failed = "late"]
             /\ UNCHANGED <<watcher, state, rev, buffered, pending, c2s>>
    <3>1. sync' \in Sync /\ sync'.at = "upload"
      BY <2>4 DEF TypeOK, Sync
    <3> QED BY <2>2, <2>4, <3>1 DEF TypeOK, MessagesOK, FlushOwed, IsDelta, disk, watcher, server
  <2>5. CASE /\ awaited' = awaited \ {id}
             /\ UNCHANGED <<watcher, state, rev, buffered, pending, sync, c2s>>
    BY <2>2, <2>5 DEF TypeOK, MessagesOK, FlushOwed, IsDelta, disk, watcher, server
  <2> QED BY <2>1, <2>3, <2>4, <2>5 DEF AckTimeout
<1>6. CASE UNCHANGED vars
  BY <1>6 DEF vars, TypeOK, MessagesOK, FlushOwed, IsDelta, disk, watcher, machine, server
<1> QED BY <1>1, <1>2, <1>3, <1>4, <1>5, <1>6

LEMMA TypedAlways == Spec => []Typed
<1>1. Typed /\ [Next]_vars => Typed'
  BY ClientStepTyped, ServerStepTyped, OtherStepTyped DEF Next
<1> QED BY <1>1, InitTyped, PTL DEF Spec

\* Whatever the user, the watcher, the server and the sockets do, every
\* variable of the client's task and of the manager's keeps its type.
THEOREM TypeCorrect == Spec => []TypeOK
<1>1. Typed => TypeOK
  BY DEF Typed
<1> QED BY <1>1, TypedAlways, PTL

-----------------------------------------------------------------------------
(* What the stages of the task imply.                                         *)

Stages ==
    /\ state = "syncing" <=> sync.at # "over"
    /\ sync.at = "start" => watch # "on"
    /\ sync.at \notin {"start", "over"} => watch = "on"
    /\ watch = "indexed" => sync.at = "start"
    /\ state = "watching" => watch = "on"
    /\ state = "syncing" => pending = {}
    /\ sync.failed # "no" => sync.at = "upload"
    /\ sync.plan # {} => sync.at \in {"hash", "meta", "upload"}

(* Until the tree is hashed nothing was sent, and the manifest is as found.   *)
Unsent ==
    sync.at \in {"start", "walk", "hash"} =>
        /\ batches = 0 /\ c2s = <<>> /\ s2c = <<>>
        /\ taskRev = 0 /\ rev = 0 /\ sync.next = 0 /\ sync.top = 0
        /\ \A p \in Paths : entries[p] \in {NoEntry, [stat |-> 1, content |-> 1]}

(* Outside the upload loop at most one batch is awaited, the last.            *)
OneAwaited ==
    /\ sync.at = "meta" => rev = 0
    /\ sync.at \in {"start", "walk", "hash", "flush", "push", "complete", "sent"} => awaited = {}
    /\ sync.at \in {"meta", "pushed", "over"} => awaited \subseteq {batches}

(* A task that works has sent deltas only, and one more message at the end of *)
(* its initial sync.                                                          *)
Sent ==
    /\ Working => \A i \in DOMAIN c2s : c2s[i].kind \in {"delta", "complete"}
    /\ sync.at \notin {"sent", "over"} => \A i \in DOMAIN c2s : IsDelta(i)

Phases == Stages /\ Unsent /\ OneAwaited /\ Sent

LEMMA InitPhases == Init => Phases
<1> SUFFICES ASSUME Init PROVE Phases
  OBVIOUS
<1>1. \A p \in Paths : entries[p] \in {NoEntry, [stat |-> 1, content |-> 1]}
  BY DEF Init
<1> QED BY <1>1 DEF Init, Phases, Stages, Unsent, OneAwaited, Sent, NewSync, Working, IsDelta

LEMMA SendQueues ==
  ASSUME Typed, NEW base \in Nat, NEW changes \in SUBSET Change, Send(base, changes),
         NEW K, "delta" \in K, \A i \in DOMAIN c2s : c2s[i].kind \in K
  PROVE  /\ \A i \in DOMAIN c2s' : c2s'[i].kind \in K
         /\ awaited = {} => awaited' = {batches'}
<1>1. Delta(base, changes).kind = "delta"
  BY DEF Delta
<1>2. /\ \A i \in DOMAIN c2s' : i \in DOMAIN c2s \/ i = Len(c2s')
      /\ \A i \in DOMAIN c2s : c2s'[i] = c2s[i]
      /\ c2s'[Len(c2s')] = Delta(base, changes)
      /\ awaited' = awaited \cup {batches'}
  BY SendTyped
<1> QED BY <1>1, <1>2

LEMMA GivenUpPhases ==
  ASSUME Typed, Phases, Passive \/ PassiveWithFault
  PROVE  Phases'
<1>1. PICK message \in Silence : GiveUp(message)
  BY DEF Passive, PassiveWithFault, Silence
<1>2. /\ sync'.at = "over" /\ sync'.plan = {} /\ sync'.failed = "no"
      /\ state' \in {"passive", "crashed"}
  BY <1>1, GiveUpTyped
<1> QED BY <1>1, <1>2 DEF GiveUp, Phases, Stages, Unsent, OneAwaited, Sent, Working

LEMMA FlushAdvances ==
  ASSUME Typed, Flush
  PROVE  /\ \/ sync'.at = sync.at
            \/ sync.at = "flush" /\ sync'.at = "push"
         /\ sync'.failed = sync.failed /\ sync'.plan = sync.plan
         /\ sync'.next = sync.next /\ sync'.top = sync.top
         /\ sync'.todo = sync.todo /\ sync'.deletes = sync.deletes
<1>1. CASE sync.at # "flush"
  <2>1. sync' = sync
    BY <1>1 DEF Flush
  <2>2. sync'.at = sync.at
    BY <2>1
  <2> QED BY <2>1, <2>2
<1>2. CASE sync.at = "flush"
  <2> DEFINE next == IF sync.owed = 1 THEN "push" ELSE "flush"
             left == sync.owed - 1
  <2>1. sync' = [sync EXCEPT !.owed = left, !.at = next]
    BY <1>2 DEF Flush
  <2>2. next \in {"push", "flush"}
    OBVIOUS
  <2> HIDE DEF next, left
  <2> QED BY <1>2, <2>1, <2>2 DEF Typed, TypeOK, Sync
<1> QED BY <1>1, <1>2

LEMMA ClientStepPhases ==
  ASSUME Typed, Phases, Client
  PROVE  Phases'
<1>0. sync \in Sync
  BY DEF Typed, TypeOK
<1> USE DEF Phases, Stages, Unsent, OneAwaited, Sent, Working, IsDelta
<1>1. CASE WatcherIndexes
  BY <1>1 DEF WatcherIndexes, disk, machine, server
<1>2. CASE WatcherArms
  BY <1>0, <1>2 DEF WatcherArms, disk, server, Sync
<1>3. CASE FlushTimer
  BY <1>3 DEF FlushTimer, disk, machine, server
<1>4. CASE Flush
  <2>1. /\ \/ sync'.at = sync.at
           \/ sync.at = "flush" /\ sync'.at = "push"
        /\ sync'.failed = sync.failed /\ sync'.plan = sync.plan
        /\ sync'.next = sync.next /\ sync'.top = sync.top
    BY <1>4, FlushAdvances
  <2> QED BY <1>4, <2>1 DEF Flush, disk, server
<1>5. CASE Walk
  BY <1>0, <1>5 DEF Walk, disk, watcher, server, Sync
<1>6. CASE SendMeta
  <2>1. CASE sync.deletes = {}
    BY <1>0, <1>6, <2>1 DEF SendMeta, disk, watcher, server, Sync
  <2>2. CASE sync.deletes # {}
    <3>1. Send(0, Deleted(sync.deletes)) /\ Deleted(sync.deletes) \in SUBSET Change
      BY <1>0, <1>6, <2>2, FoundAreChanges DEF SendMeta, Sync
    <3>2. /\ awaited' \subseteq {batches'}
          /\ \A i \in DOMAIN c2s' : c2s'[i].kind \in {"delta"}
      <4>1. awaited = {} /\ \A i \in DOMAIN c2s : c2s[i].kind \in {"delta"}
        BY <1>6 DEF SendMeta
      <4> QED BY <3>1, <4>1, SendQueues
    <3>3. /\ sync'.at = "meta" /\ sync'.failed = sync.failed
      BY <1>0, <1>6, <2>2 DEF SendMeta, Sync
    <3> QED BY <1>6, <3>2, <3>3 DEF SendMeta, disk, watcher, server
  <2> QED BY <2>1, <2>2
<1>7. CASE UploadCrashes
  BY <1>7, GivenUpPhases DEF UploadCrashes
<1>8. CASE UploadFails
  BY <1>8, GivenUpPhases DEF UploadFails
<1>9. CASE Uploaded
  <2>1. /\ sync.at = "upload" /\ sync.failed = "no" /\ sync.plan = {} /\ awaited = {}
        /\ sync'.at \in {"push", "flush"} /\ sync'.failed = "no" /\ sync'.plan = {}
    BY <1>0, <1>9 DEF Uploaded, Sync
  <2> QED BY <1>9, <2>1 DEF Uploaded, disk, server
<1>10. CASE PushBuffered
  <2>1. CASE buffered = {}
    BY <1>0, <1>10, <2>1 DEF PushBuffered, disk, watcher, server, Sync
  <2>2. CASE buffered # {}
    <3>1. Send(rev, buffered) /\ buffered \in SUBSET Change /\ rev \in Nat
      BY <1>10, <2>2 DEF PushBuffered, Typed, TypeOK
    <3>2. /\ awaited' \subseteq {batches'}
          /\ \A i \in DOMAIN c2s' : c2s'[i].kind \in {"delta"}
      <4>1. awaited = {} /\ \A i \in DOMAIN c2s : c2s[i].kind \in {"delta"}
        BY <1>10 DEF PushBuffered
      <4> QED BY <3>1, <4>1, SendQueues
    <3>3. sync'.at = "pushed" /\ sync'.failed = sync.failed /\ sync'.plan = sync.plan
      BY <1>0, <1>10, <2>2 DEF PushBuffered, Sync
    <3> QED BY <1>10, <3>2, <3>3 DEF PushBuffered, disk, watcher, server
  <2> QED BY <2>1, <2>2
<1>11. CASE SendComplete
  <2>1. sync'.at = "sent" /\ sync'.failed = sync.failed /\ sync'.plan = sync.plan
    BY <1>0, <1>11 DEF SendComplete, Sync
  <2>2. [kind |-> "complete", base |-> rev] \in Request /\ c2s \in Seq(Request)
    BY DEF Typed, TypeOK, MessagesOK, Request
  <2>3. \A i \in DOMAIN c2s' : c2s'[i].kind \in {"delta", "complete"}
    BY <1>11, <2>2 DEF SendComplete
  <2> QED BY <1>11, <2>1, <2>3 DEF SendComplete, disk, watcher, server
<1>12. CASE StartWatching
  BY <1>0, <1>12 DEF StartWatching, NewSync, disk, watcher, server
<1>13. CASE \E p \in Paths : Hash(p) \/ HashFails(p)
  <2>1. PICK p \in Paths : Hash(p) \/ HashFails(p)
    BY <1>13
  <2>2. CASE Hash(p)
    <3>1. /\ sync.at = "hash" /\ sync'.at = "hash" /\ sync'.failed = sync.failed
          /\ sync'.next = sync.next /\ sync'.top = sync.top
      BY <1>0, <2>2 DEF Hash, Sync
    <3> QED BY <2>2, <3>1 DEF Hash, disk, watcher, server
  <2>3. CASE HashFails(p)
    BY <2>3, GivenUpPhases DEF HashFails
  <2> QED BY <2>1, <2>2, <2>3
<1>14. CASE \E c \in sync.plan : SendUpload(c)
  <2>1. PICK c \in sync.plan : SendUpload(c)
    BY <1>14
  <2>2. sync.at = "upload" /\ sync'.at = "upload" /\ sync'.failed = sync.failed
    BY <1>0, <2>1 DEF SendUpload, Sync
  <2>3. Send(sync.next, {c}) /\ {c} \in SUBSET Change /\ sync.next \in Nat
    BY <1>0, <2>1 DEF SendUpload, Sync
  <2>4. \A i \in DOMAIN c2s' : c2s'[i].kind \in {"delta"}
    <3>1. \A i \in DOMAIN c2s : c2s[i].kind \in {"delta"}
      BY <2>2
    <3> QED BY <2>3, <3>1, SendQueues
  <2> QED BY <2>1, <2>2, <2>4 DEF SendUpload, disk, watcher, server
<1>15. CASE Drain
  <2>1. Send(rev, pending) /\ pending \in SUBSET Change /\ rev \in Nat
    BY <1>15 DEF Drain, Typed, TypeOK
  <2>2. /\ awaited' \subseteq {batches'}
        /\ \A i \in DOMAIN c2s' : c2s'[i].kind \in {"delta", "complete"}
    <3>1. awaited = {} /\ \A i \in DOMAIN c2s : c2s[i].kind \in {"delta", "complete"}
      BY <1>15 DEF Drain
    <3> QED BY <2>1, <3>1, SendQueues
  <2> QED BY <1>15, <2>2 DEF Drain, disk, watcher, server
<1>16. CASE ReceiveAck
  <2> DEFINE ack == Head(s2c)
  <2>1. s2c # <<>> /\ UNCHANGED <<disk, batches, timeouts, server>>
        /\ (Accepted(ack) \/ Refused(ack) \/ Ignored(ack))
    BY <1>16 DEF ReceiveAck
  <2> HIDE DEF ack
  <2>2. sync.at \notin {"start", "walk", "hash"}
    BY <2>1
  <2>3. CASE Accepted(ack)
    <3>0. ack.id \in awaited /\ awaited' = awaited \ {ack.id}
          /\ UNCHANGED <<watcher, state, buffered, pending, c2s>>
      BY <2>3 DEF Accepted
    <3>1. sync.at \in {"meta", "upload", "pushed", "over"} /\ awaited' \subseteq awaited
      BY <1>0, <2>2, <3>0 DEF Sync
    <3>9. sync.at \in {"meta", "pushed", "over"} => awaited' = {}
      BY <3>0
    <3>2. /\ sync.at = "meta" => sync'.at = "upload"
          /\ sync.at = "pushed" => sync'.at = "complete"
          /\ sync.at \in {"upload", "over"} => sync'.at = sync.at
          /\ sync'.failed = sync.failed /\ sync'.plan = sync.plan
      BY <1>0, <2>3, <3>1 DEF Accepted, Sync
    <3> QED BY <2>1, <3>0, <3>1, <3>2, <3>9 DEF watcher, server
  <2>4. CASE Passive
    BY <2>4, GivenUpPhases
  <2>5. CASE Refused(ack) /\ ~Passive
    <3>1. /\ awaited' = {} /\ sync' = [sync EXCEPT !.failed = "ack"] /\ sync.at = "upload"
          /\ UNCHANGED <<watcher, state, rev, buffered, pending, c2s>>
      BY <2>5 DEF Refused
    <3>2. sync'.at = "upload" /\ sync'.plan = sync.plan
      BY <1>0, <3>1 DEF Sync
    <3> QED BY <2>1, <3>1, <3>2 DEF watcher, server
  <2>6. CASE Ignored(ack)
    BY <2>1, <2>2, <2>6 DEF Ignored, watcher, server
  <2> QED BY <2>1, <2>3, <2>4, <2>5, <2>6
<1> QED BY <1>1, <1>2, <1>3, <1>4, <1>5, <1>6, <1>7, <1>8, <1>9, <1>10, <1>11, <1>12, <1>13,
           <1>14, <1>15, <1>16 DEF Client

LEMMA ServerStepPhases ==
  ASSUME Typed, Phases, Server
  PROVE  Phases'
<1>1. /\ c2s # <<>> /\ c2s' = Tail(c2s)
      /\ UNCHANGED <<disk, watcher, machine>>
  BY DEF Server, ServeDelta, ServeComplete, ServeFault
<1>2. sync.at \notin {"start", "walk", "hash"}
  BY <1>1 DEF Phases, Unsent
<1>3. \A i \in DOMAIN c2s' : i + 1 \in DOMAIN c2s /\ c2s'[i] = c2s[i + 1]
  BY <1>1, HeadRequest
<1> QED BY <1>1, <1>2, <1>3
        DEF Phases, Stages, Unsent, OneAwaited, Sent, Working, IsDelta, disk, watcher, machine

LEMMA OtherStepPhases ==
  ASSUME Typed, Phases,
         \/ \E p \in Paths : Edit(p) \/ Remove(p)
         \/ WatcherFails \/ Sweep \/ OtherWriter
         \/ \E id \in awaited : AckTimeout(id)
         \/ UNCHANGED vars
  PROVE  Phases'
<1> USE DEF Phases, Stages, Unsent, OneAwaited, Sent, Working, IsDelta
<1>1. CASE \E p \in Paths : Edit(p) \/ Remove(p)
  BY <1>1 DEF Edit, Remove, Written, machine, server
<1>2. CASE WatcherFails
  BY <1>2, GivenUpPhases DEF WatcherFails
<1>3. CASE Sweep
  BY <1>3 DEF Sweep, disk, watcher, machine
<1>4. CASE OtherWriter
  <2>1. \A p \in Paths : entries'[p] \in {entries[p], NoEntry}
    BY <1>4, ReadManifest DEF OtherWriter
  <2>2. UNCHANGED <<disk, watcher, machine, c2s, s2c, taskRev>>
    BY <1>4 DEF OtherWriter
  <2> QED BY <2>1, <2>2 DEF disk, watcher, machine
<1>5. CASE \E id \in awaited : AckTimeout(id)
  <2>1. PICK id \in awaited : AckTimeout(id)
    BY <1>5
  <2>2. CASE PassiveWithFault
    BY <2>2, GivenUpPhases
  <2>3. CASE /\ sync.at = "upload"
             /\ awaited' = {} /\ sync' = [sync EXCEPT !.failed = "late"]
             /\ UNCHANGED <<watcher, state, rev, buffered, pending, c2s>>
    <3>1. sync'.at = "upload" /\ sync'.plan = sync.plan
      BY <2>3 DEF Typed, TypeOK, Sync
    <3> QED BY <2>1, <2>3, <3>1 DEF AckTimeout, watcher, server
  <2>4. CASE /\ awaited' = awaited \ {id}
             /\ UNCHANGED <<watcher, state, rev, buffered, pending, sync, c2s>>
    BY <2>1, <2>4 DEF AckTimeout, watcher, server
  <2> QED BY <2>1, <2>2, <2>3, <2>4 DEF AckTimeout
<1>6. CASE UNCHANGED vars
  BY <1>6 DEF vars, disk, watcher, machine, server
<1> QED BY <1>1, <1>2, <1>3, <1>4, <1>5, <1>6

LEMMA PhasesAlways == Spec => []Phases
<1>1. Typed /\ Phases /\ [Next]_vars => Phases'
  BY ClientStepPhases, ServerStepPhases, OtherStepPhases DEF Next
<1> QED BY <1>1, InitPhases, TypedAlways, PTL DEF Spec

-----------------------------------------------------------------------------
(* The queues of a task whose acks come in time.                              *)

(* The client works, and no batch of its initial sync failed.                 *)
Going == Working /\ sync.failed = "no"
Alive == Going /\ timeouts = 0

(* What the client takes the revision of the task to be.                      *)
Known == IF sync.at = "upload" THEN sync.top ELSE rev

(* What a step may do to the queues.                                          *)
QueuesRest == UNCHANGED <<c2s, s2c, awaited, batches, taskRev>>

DeltaSent == /\ \E base \in Nat, changes \in SUBSET Change : Send(base, changes)
             /\ UNCHANGED <<s2c, taskRev>>

CompleteSent == /\ sync.at = "complete" /\ sync'.at = "sent"
                /\ c2s' = Append(c2s, [kind |-> "complete", base |-> rev])
                /\ UNCHANGED <<s2c, awaited, batches, taskRev>>

OtherServed == /\ ServeComplete \/ ServeFault
               /\ c2s # <<>> /\ Head(c2s).kind # "delta" /\ c2s' = Tail(c2s)
               /\ UNCHANGED <<s2c, awaited, batches, taskRev>>

AckTaken == \/ ReceiveAck /\ Accepted(Head(s2c))
            \/ ReceiveAck /\ Ignored(Head(s2c))

Kept == /\ Known' = Known
        /\ sync'.at = "upload" => s2c = <<>> \/ sync.at = "upload"

StepKind == \/ QueuesRest /\ Kept
            \/ DeltaSent /\ Kept
            \/ CompleteSent /\ Kept
            \/ OtherServed /\ Kept
            \/ ServeDelta /\ Kept
            \/ AckTaken

(* Unchanged machinery: the client's half, seen from the server's steps.      *)
LEMMA MachineRests ==
  ASSUME UNCHANGED machine
  PROVE  Kept /\ (Going' => Going) /\ timeouts' = timeouts
  BY DEF machine, Kept, Known, Going, Working

LEMMA ClientStepKind ==
  ASSUME Typed, Phases, Client, Going'
  PROVE  Going /\ StepKind /\ timeouts' = timeouts
<1>0. sync \in Sync /\ batches \in Nat /\ rev \in Nat
  BY DEF Typed, TypeOK
<1>a. ASSUME Passive \/ PassiveWithFault PROVE FALSE
  <2>1. PICK message \in Silence : GiveUp(message)
    BY <1>a DEF Passive, PassiveWithFault, Silence
  <2> QED BY <2>1, GiveUpTyped DEF Going, Working
<1>b. ASSUME UNCHANGED <<machine, c2s, s2c, server>> PROVE Going /\ StepKind /\ timeouts' = timeouts
  BY <1>b, MachineRests DEF machine, server, StepKind, QueuesRest
<1>1. CASE WatcherIndexes
  BY <1>b, <1>1 DEF WatcherIndexes
<1>2. CASE WatcherArms
  BY <1>0, <1>2 DEF WatcherArms, StepKind, QueuesRest, Kept, Known, Going, Working, server, Sync,
                    Phases, Stages
<1>3. CASE FlushTimer
  BY <1>b, <1>3 DEF FlushTimer
<1>4. CASE Flush
  <2>1. UNCHANGED <<state, rev, timeouts, c2s, s2c, awaited, batches, taskRev>>
    BY <1>4 DEF Flush, server
  <2> QED BY <2>1, <1>4, FlushAdvances DEF StepKind, QueuesRest, Kept, Known, Going, Working
<1>5. CASE Walk
  BY <1>0, <1>5 DEF Walk, StepKind, QueuesRest, Kept, Known, Going, Working, server, Sync
<1>6. CASE SendMeta
  <2>1. /\ sync.at = "hash" /\ sync'.at \in {"upload", "meta"} /\ sync'.failed = sync.failed
        /\ sync'.top = sync.top
        /\ UNCHANGED <<state, rev, timeouts, s2c, taskRev>>
    BY <1>0, <1>6 DEF SendMeta, Sync, server
  <2>2. Going /\ Kept
    BY <2>1 DEF Going, Working, Kept, Known, Phases, Unsent
  <2>3. CASE sync.deletes = {}
    BY <1>6, <2>1, <2>2, <2>3 DEF SendMeta, StepKind, QueuesRest
  <2>4. CASE sync.deletes # {}
    <3>1. Send(0, Deleted(sync.deletes)) /\ Deleted(sync.deletes) \in SUBSET Change
      BY <1>0, <1>6, <2>4, FoundAreChanges DEF SendMeta, Sync
    <3> QED BY <2>1, <2>2, <3>1 DEF StepKind, DeltaSent
  <2> QED BY <2>3, <2>4
<1>7. CASE UploadCrashes
  BY <1>7, <1>a DEF UploadCrashes
<1>8. CASE UploadFails
  BY <1>8, <1>a DEF UploadFails
<1>9. CASE Uploaded
  <2>1. /\ sync.at = "upload" /\ sync'.at \in {"push", "flush"} /\ sync'.failed = sync.failed
        /\ rev' = sync.top
    BY <1>0, <1>9 DEF Uploaded, Sync
  <2>2. UNCHANGED <<state, timeouts, c2s, s2c, awaited, batches, taskRev>>
    BY <1>9 DEF Uploaded, server
  <2> QED BY <2>1, <2>2 DEF StepKind, QueuesRest, Kept, Known, Going, Working
<1>10. CASE PushBuffered
  <2>1. /\ sync.at = "push" /\ sync'.at \in {"complete", "pushed"} /\ sync'.failed = sync.failed
        /\ UNCHANGED <<state, rev, timeouts, s2c, taskRev>>
    BY <1>0, <1>10 DEF PushBuffered, Sync, server
  <2>2. Going /\ Kept
    BY <2>1 DEF Going, Working, Kept, Known
  <2>3. CASE buffered = {}
    BY <1>10, <2>1, <2>2, <2>3 DEF PushBuffered, StepKind, QueuesRest
  <2>4. CASE buffered # {}
    <3>1. Send(rev, buffered) /\ buffered \in SUBSET Change
      BY <1>10, <2>4 DEF PushBuffered, Typed, TypeOK
    <3> QED BY <1>0, <2>1, <2>2, <3>1 DEF StepKind, DeltaSent
  <2> QED BY <2>3, <2>4
<1>11. CASE SendComplete
  <2>1. sync.at = "complete" /\ sync'.at = "sent" /\ sync'.failed = sync.failed
    BY <1>0, <1>11 DEF SendComplete, Sync
  <2> QED BY <1>11, <2>1
          DEF SendComplete, StepKind, CompleteSent, Kept, Known, Going, Working, server
<1>12. CASE StartWatching
  <2>1. sync.at = "sent" /\ sync'.at = "over" /\ sync.failed = "no" /\ state = "syncing"
    BY <1>12 DEF StartWatching, NewSync, Phases, Stages
  <2> QED BY <1>12, <2>1 DEF StartWatching, StepKind, QueuesRest, Kept, Known, Going, Working, server
<1>13. CASE \E p \in Paths : Hash(p) \/ HashFails(p)
  <2>1. PICK p \in Paths : Hash(p)
    BY <1>13, <1>a DEF HashFails
  <2>2. sync.at = "hash" /\ sync'.at = "hash" /\ sync'.failed = sync.failed
    BY <1>0, <2>1 DEF Hash, Sync
  <2> QED BY <2>1, <2>2 DEF Hash, StepKind, QueuesRest, Kept, Known, Going, Working, server
<1>14. CASE \E c \in sync.plan : SendUpload(c)
  <2>1. PICK c \in sync.plan : SendUpload(c)
    BY <1>14
  <2>2. /\ sync.at = "upload" /\ sync'.at = "upload" /\ sync'.failed = sync.failed
        /\ sync'.top = sync.top
        /\ UNCHANGED <<state, rev, timeouts, s2c, taskRev>>
    BY <1>0, <2>1 DEF SendUpload, Sync, server
  <2>3. Send(sync.next, {c}) /\ {c} \in SUBSET Change /\ sync.next \in Nat
    BY <1>0, <2>1 DEF SendUpload, Sync
  <2>4. Going /\ Kept
    BY <2>2 DEF Going, Working, Kept, Known
  <2> QED BY <2>2, <2>3, <2>4 DEF StepKind, DeltaSent
<1>15. CASE Drain
  <2>1. Send(rev, pending) /\ pending \in SUBSET Change
    BY <1>15 DEF Drain, Typed, TypeOK
  <2>2. UNCHANGED <<state, rev, sync, timeouts, s2c, taskRev>>
    BY <1>15 DEF Drain, server
  <2>3. Going /\ Kept
    BY <2>2 DEF Going, Working, Kept, Known
  <2> QED BY <1>0, <2>1, <2>2, <2>3 DEF StepKind, DeltaSent
<1>16. CASE ReceiveAck
  <2> DEFINE ack == Head(s2c)
  <2>1. timeouts' = timeouts /\ (Accepted(ack) \/ Refused(ack) \/ Ignored(ack))
    BY <1>16 DEF ReceiveAck
  <2> HIDE DEF ack
  <2>2. CASE Accepted(ack)
    <3>1. state' = state /\ sync'.failed = sync.failed
      <4>1. CASE sync.at = "meta"
        BY <1>0, <2>2, <4>1 DEF Accepted, Sync
      <4>2. CASE sync.at = "upload"
        BY <1>0, <2>2, <4>2 DEF Accepted, Sync
      <4>3. CASE sync.at = "pushed"
        BY <1>0, <2>2, <4>3 DEF Accepted, Sync
      <4>4. CASE sync.at \notin {"meta", "upload", "pushed"}
        BY <2>2, <4>4 DEF Accepted
      <4> QED BY <4>1, <4>2, <4>3, <4>4
    <3> QED BY <1>16, <2>1, <2>2, <3>1 DEF StepKind, AckTaken, Going, Working, ack
  <2>3. CASE Ignored(ack)
    <3>1. state' = state /\ sync' = sync
      BY <2>3 DEF Ignored
    <3> QED BY <1>16, <2>1, <2>3, <3>1 DEF StepKind, AckTaken, Going, Working, ack
  <2>4. CASE Refused(ack)
    <3>1. sync' = [sync EXCEPT !.failed = "ack"]
      BY <1>a, <2>4 DEF Refused
    <3> QED BY <1>0, <3>1 DEF Going, Sync
  <2> QED BY <2>1, <2>2, <2>3, <2>4
<1> QED BY <1>1, <1>2, <1>3, <1>4, <1>5, <1>6, <1>7, <1>8, <1>9, <1>10, <1>11, <1>12, <1>13,
           <1>14, <1>15, <1>16 DEF Client

(* An ack of a live batch comes too late: nobody waits for it any more.       *)
LiveAckLate ==
    /\ \E id \in awaited : AckTimeout(id)
    /\ state = "watching" /\ awaited' \subseteq awaited /\ timeouts' = timeouts + 1
    /\ UNCHANGED <<disk, watcher, state, rev, buffered, pending, sync, batches, c2s, s2c, server>>

LEMMA WorkSteps ==
  ASSUME Typed, Phases, [Next]_vars, Going'
  PROVE  Going /\ (LiveAckLate \/ (StepKind /\ timeouts' = timeouts))
<1>a. ASSUME PassiveWithFault PROVE FALSE
  <2>1. PICK message \in Silence : GiveUp(message)
    BY <1>a DEF PassiveWithFault, Silence
  <2> QED BY <2>1, GiveUpTyped DEF Going, Working
<1>1. CASE Client
  BY <1>1, ClientStepKind
<1>2. CASE ServeDelta
  <2>1. UNCHANGED machine
    BY <1>2 DEF ServeDelta
  <2> QED BY <1>2, <2>1, MachineRests DEF StepKind
<1>3. CASE ServeComplete \/ ServeFault
  <2>1. /\ c2s # <<>> /\ c2s' = Tail(c2s) /\ Head(c2s).kind # "delta"
        /\ UNCHANGED <<machine, s2c, taskRev>>
    BY <1>3 DEF ServeComplete, ServeFault
  <2>2. Kept /\ Going /\ timeouts' = timeouts
    BY <2>1, MachineRests
  <2> QED BY <1>3, <2>1, <2>2 DEF StepKind, OtherServed, machine
<1>4. CASE \/ \E p \in Paths : Edit(p) \/ Remove(p)
           \/ Sweep \/ OtherWriter \/ UNCHANGED vars
  <2>1. UNCHANGED <<machine, c2s, s2c, taskRev>>
    BY <1>4 DEF Edit, Remove, Written, Sweep, OtherWriter, vars, server
  <2>2. Kept /\ Going /\ timeouts' = timeouts
    BY <2>1, MachineRests
  <2> QED BY <2>1, <2>2 DEF StepKind, QueuesRest, machine
<1>5. CASE WatcherFails
  BY <1>5, <1>a DEF WatcherFails
<1>6. CASE \E id \in awaited : AckTimeout(id)
  <2>1. PICK id \in awaited : AckTimeout(id)
    BY <1>6
  <2>2. ASSUME sync' = [sync EXCEPT !.failed = "late"] PROVE FALSE
    BY <2>2 DEF Typed, TypeOK, Sync, Going
  <2>3. /\ state = "watching" /\ awaited' = awaited \ {id}
        /\ UNCHANGED <<watcher, state, rev, buffered, pending, sync, c2s>>
    BY <1>a, <2>1, <2>2 DEF AckTimeout
  <2>4. timeouts' = timeouts + 1 /\ UNCHANGED <<disk, batches, s2c, server>>
    BY <2>1 DEF AckTimeout
  <2> QED BY <1>6, <2>3, <2>4 DEF LiveAckLate, Going, Working
<1> QED BY <1>1, <1>2, <1>3, <1>4, <1>5, <1>6 DEF Next, Server

LEMMA StepKinds ==
  ASSUME Typed, Phases, [Next]_vars, Alive'
  PROVE  Alive /\ StepKind
<1>1. Going /\ (LiveAckLate \/ (StepKind /\ timeouts' = timeouts))
  BY WorkSteps DEF Alive
<1>2. timeouts \in Nat
  BY DEF Typed, TypeOK
<1> QED BY <1>1, <1>2 DEF Alive, LiveAckLate

(* The ack at the head of the queue, and what the queue is without it.        *)
LEMMA HeadAck ==
  ASSUME Typed, s2c # <<>>, s2c' = Tail(s2c)
  PROVE  /\ 1 \in DOMAIN s2c /\ Head(s2c) = s2c[1] /\ Head(s2c) \in Acks
         /\ s2c' \in Seq(Acks) /\ Len(s2c') = Len(s2c) - 1 /\ Len(s2c) \in Nat
         /\ DOMAIN s2c = 1..Len(s2c) /\ DOMAIN s2c' = 1..Len(s2c')
         /\ \A i \in DOMAIN s2c' : i \in Nat /\ i + 1 \in DOMAIN s2c /\ s2c'[i] = s2c[i + 1]
<1>1. s2c \in Seq(Acks)
  BY DEF Typed, TypeOK, Acks
<1> QED BY <1>1

(* The server answered the delta at the head.                                 *)
LEMMA AckAppended ==
  ASSUME Typed, ServeDelta
  PROVE  \E code \in Codes, revision \in Nat :
            /\ s2c' = Append(s2c, Ack(Head(c2s).id, code, revision))
            /\ code = "ok" => revision = taskRev'
            /\ code # "ok" => taskRev' = taskRev
            /\ s2c' \in Seq(Acks) /\ Len(s2c') = Len(s2c) + 1 /\ Len(s2c) \in Nat
            /\ DOMAIN s2c = 1..Len(s2c) /\ DOMAIN s2c' = 1..Len(s2c')
            /\ \A i \in DOMAIN s2c : s2c'[i] = s2c[i]
            /\ s2c'[Len(s2c')] = Ack(Head(c2s).id, code, revision)
<1> DEFINE d == Head(c2s)
<1>1. d.id \in 1..batches /\ c2s # <<>> /\ d.kind = "delta"
  BY HeadRequest DEF ServeDelta, Typed, MessagesOK, IsDelta
<1>2. 0 \in Nat /\ s2c \in Seq(Acks) /\ \A manifest \in ManifestsRead : manifest.rev + 1 \in Nat
  BY ReadManifest DEF Typed, TypeOK, Acks
<1>3. Verdict(d) \in Codes /\ "ok" \in Codes /\ "STORE_WRITE_FAILED" \in Codes
  BY DEF Verdict, Codes
<1> HIDE DEF d
<1>4. PICK code \in Codes, revision \in Nat :
         /\ s2c' = Append(s2c, Ack(d.id, code, revision))
         /\ code = "ok" => revision = taskRev'
         /\ code # "ok" => taskRev' = taskRev
  <2>1. CASE Verdict(d) # "ok" /\ Reply(d.id, Verdict(d), 0) /\ UNCHANGED taskRev
    BY <1>2, <1>3, <2>1 DEF Reply
  <2>2. CASE /\ \E manifest \in ManifestsRead : storeRev' = manifest.rev + 1
             /\ taskRev' = storeRev' /\ Reply(d.id, "ok", storeRev')
    BY <1>2, <1>3, <2>2 DEF Reply
  <2>3. CASE Reply(d.id, "STORE_WRITE_FAILED", 0) /\ UNCHANGED taskRev
    BY <1>2, <1>3, <2>3 DEF Reply
  <2> QED BY <2>1, <2>2, <2>3 DEF ServeDelta, d
<1>5. Ack(d.id, code, revision) \in Acks
  BY <1>1 DEF Ack, Acks
<1>6. /\ s2c' \in Seq(Acks) /\ Len(s2c') = Len(s2c) + 1 /\ Len(s2c) \in Nat
      /\ DOMAIN s2c = 1..Len(s2c) /\ DOMAIN s2c' = 1..Len(s2c')
      /\ \A i \in DOMAIN s2c : s2c'[i] = s2c[i]
      /\ s2c'[Len(s2c')] = Ack(d.id, code, revision)
  BY <1>2, <1>4, <1>5
<1> QED BY <1>4, <1>6 DEF d

(* A task that works gets its answers in the order of its batches.            *)
Order ==
    /\ \A i, j \in DOMAIN s2c : i < j => s2c[i].id < s2c[j].id
    /\ \A i, j \in DOMAIN c2s : i < j /\ IsDelta(i) /\ IsDelta(j) => c2s[i].id < c2s[j].id
    /\ \A i \in DOMAIN s2c, j \in DOMAIN c2s : IsDelta(j) => s2c[i].id < c2s[j].id
Ordered == Going => Order

LEMMA InitOrdered == Init => Ordered
  BY DEF Init, Ordered, Order

LEMMA StepOrdered ==
  ASSUME Typed, Typed', Phases, Ordered, [Next]_vars
  PROVE  Ordered'
<1> SUFFICES ASSUME Going' PROVE Order'
  BY DEF Ordered
<1>0. Going /\ (LiveAckLate \/ StepKind)
  BY WorkSteps
<1>1. /\ \A i, j \in DOMAIN s2c : i < j => s2c[i].id < s2c[j].id
      /\ \A i, j \in DOMAIN c2s : i < j /\ IsDelta(i) /\ IsDelta(j) => c2s[i].id < c2s[j].id
      /\ \A i \in DOMAIN s2c, j \in DOMAIN c2s : IsDelta(j) => s2c[i].id < c2s[j].id
  BY <1>0 DEF Ordered, Order
<1>2. /\ batches \in Nat
      /\ c2s \in Seq(Request) /\ s2c \in Seq(Acks)
      /\ DOMAIN c2s = 1..Len(c2s) /\ Len(c2s) \in Nat
      /\ DOMAIN s2c = 1..Len(s2c) /\ Len(s2c) \in Nat
      /\ \A i \in DOMAIN s2c : s2c[i].id \in 1..batches
      /\ \A i \in DOMAIN c2s : IsDelta(i) => c2s[i].id \in 1..batches
  <2>1. c2s \in Seq(Request) /\ s2c \in Seq(Acks) /\ batches \in Nat
        /\ \A i \in DOMAIN c2s : IsDelta(i) => c2s[i].id \in 1..batches
    BY DEF Typed, TypeOK, MessagesOK, Acks
  <2>2. \A r \in Acks : r.id \in 1..batches
    BY DEF Acks
  <2> QED BY <2>1, <2>2
<1>3. CASE QueuesRest \/ LiveAckLate
  BY <1>1, <1>3 DEF QueuesRest, LiveAckLate, Order, IsDelta
<1>4. CASE DeltaSent
  <2>1. PICK base \in Nat, changes \in SUBSET Change : Send(base, changes)
    BY <1>4 DEF DeltaSent
  <2>2. /\ Len(c2s') = Len(c2s) + 1 /\ c2s' \in Seq(Request) /\ DOMAIN c2s' = 1..Len(c2s')
        /\ \A i \in DOMAIN c2s : i \in DOMAIN c2s' /\ c2s'[i] = c2s[i]
        /\ c2s'[Len(c2s')] = Delta(base, changes)
        /\ \A i \in DOMAIN c2s' : i \in DOMAIN c2s \/ i = Len(c2s')
        /\ batches' = batches + 1
    <3>1. c2s' \in Seq(Request)
      BY <2>1, SendTyped
    <3>2. DOMAIN c2s' = 1..Len(c2s')
      BY <3>1
    <3> QED BY <2>1, <3>1, <3>2, SendTyped
  <2>3. c2s'[Len(c2s')].id = batches'
    BY <2>2 DEF Delta
  <2>4. s2c' = s2c /\ \A i \in DOMAIN s2c : s2c[i].id < batches'
    BY <1>2, <1>4, <2>2 DEF DeltaSent
  <2>5. \A i \in DOMAIN c2s : IsDelta(i) => c2s[i].id < batches'
    BY <1>2, <2>2
  <2>7. ASSUME NEW i \in DOMAIN c2s', NEW j \in DOMAIN c2s', i < j,
               c2s'[i].kind = "delta", c2s'[j].kind = "delta"
        PROVE  c2s'[i].id < c2s'[j].id
    <3>1. i \in DOMAIN c2s /\ c2s'[i] = c2s[i]
      BY <1>2, <2>2, <2>7
    <3>2. CASE j \in DOMAIN c2s
      BY <1>1, <2>2, <2>7, <3>1, <3>2 DEF IsDelta
    <3>3. CASE j = Len(c2s')
      BY <2>3, <2>5, <2>7, <3>1, <3>3 DEF IsDelta
    <3> QED BY <2>2, <3>2, <3>3
  <2>8. \A i \in DOMAIN s2c, j \in DOMAIN c2s' : c2s'[j].kind = "delta" => s2c[i].id < c2s'[j].id
    BY <1>1, <2>2, <2>3, <2>4 DEF IsDelta
  <2> QED BY <1>1, <2>4, <2>7, <2>8 DEF Order, IsDelta
<1>5. CASE CompleteSent
  <2> DEFINE done == [kind |-> "complete", base |-> rev]
  <2>1. done \in Request /\ done.kind # "delta"
    BY DEF Request, Typed, TypeOK
  <2>2. /\ Len(c2s') = Len(c2s) + 1 /\ DOMAIN c2s' = 1..Len(c2s')
        /\ \A i \in DOMAIN c2s : c2s'[i] = c2s[i]
        /\ c2s'[Len(c2s')] = done
    BY <1>2, <1>5, <2>1 DEF CompleteSent
  <2>3. \A i \in DOMAIN c2s' : c2s'[i].kind = "delta" => i \in DOMAIN c2s
    BY <1>2, <2>1, <2>2
  <2> QED BY <1>1, <1>5, <2>2, <2>3 DEF CompleteSent, Order, IsDelta
<1>6. CASE OtherServed
  <2>1. /\ UNCHANGED <<s2c, awaited, batches>>
        /\ \A i \in DOMAIN c2s' : i \in Nat /\ i + 1 \in DOMAIN c2s /\ c2s'[i] = c2s[i + 1]
    BY <1>6, HeadRequest DEF OtherServed
  <2> QED BY <1>1, <2>1 DEF Order, IsDelta
<1>7. CASE ServeDelta
  <2>1. /\ 1 \in DOMAIN c2s /\ Head(c2s) = c2s[1] /\ IsDelta(1)
        /\ \A i \in DOMAIN c2s' : i \in Nat /\ i + 1 \in DOMAIN c2s /\ c2s'[i] = c2s[i + 1]
        /\ DOMAIN c2s = 1..Len(c2s) /\ DOMAIN c2s' = 1..Len(c2s')
    BY <1>7, HeadRequest DEF ServeDelta, machine, IsDelta
  <2>2. PICK code \in Codes, revision \in Nat :
           /\ Len(s2c') = Len(s2c) + 1
           /\ DOMAIN s2c' = 1..Len(s2c')
           /\ \A i \in DOMAIN s2c : s2c'[i] = s2c[i]
           /\ s2c'[Len(s2c')] = Ack(Head(c2s).id, code, revision)
    BY <1>7, AckAppended
  <2>3. s2c'[Len(s2c')].id = c2s[1].id
    BY <2>1, <2>2 DEF Ack
  <2>4. \A i \in DOMAIN s2c' : i \in DOMAIN s2c \/ i = Len(s2c')
    BY <1>2, <2>2
  <2>6. ASSUME NEW i \in DOMAIN s2c', NEW j \in DOMAIN s2c', i < j
        PROVE  s2c'[i].id < s2c'[j].id
    <3>1. i \in DOMAIN s2c
      BY <1>2, <2>2, <2>6
    <3>2. CASE j \in DOMAIN s2c
      BY <1>1, <2>2, <2>6, <3>1, <3>2
    <3>3. CASE j = Len(s2c')
      BY <1>1, <2>1, <2>2, <2>3, <3>1, <3>3
    <3> QED BY <2>4, <3>2, <3>3
  <2>7. ASSUME NEW i \in DOMAIN s2c', NEW j \in DOMAIN c2s', c2s'[j].kind = "delta"
        PROVE  s2c'[i].id < c2s'[j].id
    <3>1. j + 1 \in DOMAIN c2s /\ IsDelta(j + 1) /\ c2s'[j] = c2s[j + 1] /\ 1 < j + 1
      BY <2>1, <2>7 DEF IsDelta
    <3>2. CASE i \in DOMAIN s2c
      BY <1>1, <2>2, <3>1, <3>2
    <3>3. CASE i = Len(s2c')
      BY <1>1, <2>1, <2>3, <3>1, <3>3
    <3> QED BY <2>4, <3>2, <3>3
  <2>8. \A i, j \in DOMAIN c2s' : i < j /\ c2s'[i].kind = "delta" /\ c2s'[j].kind = "delta"
                                    => c2s'[i].id < c2s'[j].id
    BY <1>1, <2>1 DEF IsDelta
  <2> QED BY <2>6, <2>7, <2>8 DEF Order, IsDelta
<1>8. CASE AckTaken
  <2>1. s2c # <<>> /\ s2c' = Tail(s2c)
    BY <1>8 DEF AckTaken, ReceiveAck
  <2>2. /\ 1 \in DOMAIN s2c /\ Head(s2c) = s2c[1]
        /\ \A i \in DOMAIN s2c' : i \in Nat /\ i + 1 \in DOMAIN s2c /\ s2c'[i] = s2c[i + 1]
        /\ DOMAIN s2c = 1..Len(s2c) /\ DOMAIN s2c' = 1..Len(s2c')
    BY <2>1, HeadAck
  <2>3. c2s' = c2s
    BY <1>8 DEF AckTaken, Accepted, Ignored
  <2>7. \A i, j \in DOMAIN s2c' : i < j => s2c'[i].id < s2c'[j].id
    BY <1>1, <2>2
  <2>8. \A i \in DOMAIN s2c', j \in DOMAIN c2s : IsDelta(j) => s2c'[i].id < c2s[j].id
    BY <1>1, <2>2
  <2> QED BY <1>1, <2>3, <2>7, <2>8 DEF Order, IsDelta
<1> QED BY <1>0, <1>3, <1>4, <1>5, <1>6, <1>7, <1>8 DEF StepKind

LEMMA OrderedAlways == Spec => []Ordered
<1>1. Typed /\ Typed' /\ Phases /\ Ordered /\ [Next]_vars => Ordered'
  BY StepOrdered
<1> QED BY <1>1, InitOrdered, TypedAlways, PhasesAlways, PTL DEF Spec

(* While acks come in time, what is in the queues is awaited, batch by batch.  *)
Answers == Alive =>
    /\ \A i \in DOMAIN s2c : s2c[i].id \in awaited
    /\ \A i \in DOMAIN c2s : IsDelta(i) => c2s[i].id \in awaited
    /\ Order

LEMMA InitAnswers == Init => Answers
  BY DEF Init, Answers, Order

LEMMA StepAnswers ==
  ASSUME Typed, Typed', Phases, Ordered', Answers, [Next]_vars
  PROVE  Answers'
<1> SUFFICES ASSUME Alive' PROVE Answers'
  BY DEF Answers
<1>0. Alive /\ StepKind
  BY StepKinds
<1>1. /\ \A i \in DOMAIN s2c : s2c[i].id \in awaited
      /\ \A i \in DOMAIN c2s : IsDelta(i) => c2s[i].id \in awaited
      /\ \A i, j \in DOMAIN s2c : i < j => s2c[i].id < s2c[j].id
      /\ \A i, j \in DOMAIN c2s : i < j /\ IsDelta(i) /\ IsDelta(j) => c2s[i].id < c2s[j].id
      /\ \A i \in DOMAIN s2c, j \in DOMAIN c2s : IsDelta(j) => s2c[i].id < c2s[j].id
  BY <1>0 DEF Answers, Order
<1>o. Order'
  BY DEF Alive, Ordered
<1>2. /\ batches \in Nat /\ awaited \subseteq 1..batches
      /\ c2s \in Seq(Request) /\ s2c \in Seq(Acks)
      /\ DOMAIN c2s = 1..Len(c2s) /\ Len(c2s) \in Nat
      /\ DOMAIN s2c = 1..Len(s2c) /\ Len(s2c) \in Nat
  <2>1. c2s \in Seq(Request) /\ s2c \in Seq(Acks) /\ batches \in Nat /\ awaited \subseteq 1..batches
    BY DEF Typed, TypeOK, MessagesOK, Acks
  <2> QED BY <2>1
<1>3. CASE QueuesRest
  BY <1>1, <1>3, <1>o DEF QueuesRest, Answers, IsDelta
<1>4. CASE DeltaSent
  <2>1. PICK base \in Nat, changes \in SUBSET Change : Send(base, changes)
    BY <1>4 DEF DeltaSent
  <2>2. /\ Len(c2s') = Len(c2s) + 1 /\ c2s' \in Seq(Request) /\ DOMAIN c2s' = 1..Len(c2s')
        /\ \A i \in DOMAIN c2s : i \in DOMAIN c2s' /\ c2s'[i] = c2s[i]
        /\ c2s'[Len(c2s')] = Delta(base, changes)
        /\ \A i \in DOMAIN c2s' : i \in DOMAIN c2s \/ i = Len(c2s')
        /\ batches' = batches + 1 /\ awaited' = awaited \cup {batches'}
    <3>1. c2s' \in Seq(Request)
      BY <2>1, SendTyped
    <3>2. DOMAIN c2s' = 1..Len(c2s')
      BY <3>1
    <3> QED BY <2>1, <3>1, <3>2, SendTyped
  <2>3. c2s'[Len(c2s')].id = batches'
    BY <2>2 DEF Delta
  <2>6. \A i \in DOMAIN c2s' : c2s'[i].kind = "delta" => c2s'[i].id \in awaited'
    BY <1>1, <2>2, <2>3 DEF IsDelta
  <2> QED BY <1>1, <1>4, <1>o, <2>2, <2>6 DEF DeltaSent, Answers, IsDelta
<1>5. CASE CompleteSent
  <2> DEFINE done == [kind |-> "complete", base |-> rev]
  <2>1. done \in Request /\ done.kind # "delta"
    BY DEF Request, Typed, TypeOK
  <2>2. /\ Len(c2s') = Len(c2s) + 1 /\ DOMAIN c2s' = 1..Len(c2s')
        /\ \A i \in DOMAIN c2s : c2s'[i] = c2s[i]
        /\ c2s'[Len(c2s')] = done
    BY <1>2, <1>5, <2>1 DEF CompleteSent
  <2>3. \A i \in DOMAIN c2s' : c2s'[i].kind = "delta" => i \in DOMAIN c2s
    BY <1>2, <2>1, <2>2
  <2> QED BY <1>1, <1>5, <1>o, <2>2, <2>3 DEF CompleteSent, Answers, IsDelta
<1>6. CASE OtherServed
  <2>1. /\ UNCHANGED <<s2c, awaited, batches>>
        /\ \A i \in DOMAIN c2s' : i \in Nat /\ i + 1 \in DOMAIN c2s /\ c2s'[i] = c2s[i + 1]
    BY <1>6, HeadRequest DEF OtherServed
  <2> QED BY <1>1, <1>o, <2>1 DEF Answers, IsDelta
<1>7. CASE ServeDelta
  <2>1. /\ 1 \in DOMAIN c2s /\ Head(c2s) = c2s[1] /\ IsDelta(1)
        /\ \A i \in DOMAIN c2s' : i \in Nat /\ i + 1 \in DOMAIN c2s /\ c2s'[i] = c2s[i + 1]
        /\ DOMAIN c2s = 1..Len(c2s) /\ DOMAIN c2s' = 1..Len(c2s')
        /\ UNCHANGED <<awaited, batches>>
    BY <1>7, HeadRequest DEF ServeDelta, machine, IsDelta
  <2>2. PICK code \in Codes, revision \in Nat :
           /\ Len(s2c') = Len(s2c) + 1
           /\ DOMAIN s2c' = 1..Len(s2c')
           /\ \A i \in DOMAIN s2c : s2c'[i] = s2c[i]
           /\ s2c'[Len(s2c')] = Ack(Head(c2s).id, code, revision)
    BY <1>7, AckAppended
  <2>3. s2c'[Len(s2c')].id = c2s[1].id
    BY <2>1, <2>2 DEF Ack
  <2>4. \A i \in DOMAIN s2c' : i \in DOMAIN s2c \/ i = Len(s2c')
    BY <1>2, <2>2
  <2>5. \A i \in DOMAIN s2c' : s2c'[i].id \in awaited'
    BY <1>1, <2>1, <2>2, <2>3, <2>4
  <2>9. \A i \in DOMAIN c2s' : c2s'[i].kind = "delta" => c2s'[i].id \in awaited'
    BY <1>1, <2>1 DEF IsDelta
  <2> QED BY <1>o, <2>5, <2>9 DEF Answers, IsDelta
<1>8. CASE AckTaken
  <2>1. s2c # <<>> /\ s2c' = Tail(s2c)
    BY <1>8 DEF AckTaken, ReceiveAck
  <2>2. /\ 1 \in DOMAIN s2c /\ Head(s2c) = s2c[1]
        /\ \A i \in DOMAIN s2c' : i \in Nat /\ i + 1 \in DOMAIN s2c /\ s2c'[i] = s2c[i + 1]
        /\ DOMAIN s2c = 1..Len(s2c) /\ DOMAIN s2c' = 1..Len(s2c')
    BY <2>1, HeadAck
  <2>3. c2s' = c2s /\ awaited' = awaited \ {s2c[1].id}
    <3>1. ~Ignored(Head(s2c))
      BY <1>1, <2>2 DEF Ignored
    <3> QED BY <1>8, <2>2, <3>1 DEF AckTaken, Accepted
  <2>b. s2c[1].id \in awaited
    BY <1>1, <2>2
  <2>4. \A i \in DOMAIN s2c' : s2c[1].id < s2c'[i].id /\ s2c[1].id \in Nat
    <3>1. s2c[1].id \in Nat
      <4>1. \A id \in awaited : id \in Nat
        BY <1>2
      <4> QED BY <2>b, <4>1
    <3>2. \A i \in DOMAIN s2c' : 1 < i + 1
      BY <2>2
    <3> QED BY <1>1, <2>2, <3>1, <3>2
  <2>5. \A i \in DOMAIN s2c' : s2c'[i].id \in awaited'
    BY <1>1, <1>2, <2>2, <2>3, <2>4
  <2>6. \A i \in DOMAIN c2s : IsDelta(i) => c2s[i].id \in awaited'
    <3>1. s2c[1].id \in 1..batches
      BY <1>2, <2>b
    <3>2. ASSUME NEW i \in DOMAIN c2s, IsDelta(i) PROVE c2s[i].id # s2c[1].id
      <4>1. s2c[1].id < c2s[i].id
        BY <1>1, <2>2, <3>2
      <4> QED BY <1>2, <3>1, <4>1
    <3> QED BY <1>1, <2>3, <3>2
  <2> QED BY <1>1, <1>o, <2>3, <2>5, <2>6 DEF Answers, IsDelta
<1> QED BY <1>0, <1>3, <1>4, <1>5, <1>6, <1>7, <1>8 DEF StepKind

LEMMA AnswersAlways == Spec => []Answers
<1>1. Typed /\ Typed' /\ Phases /\ Ordered' /\ Answers /\ [Next]_vars => Answers'
  BY StepAnswers
<1> QED BY <1>1, InitAnswers, TypedAlways, PhasesAlways, OrderedAlways, PTL DEF Spec

-----------------------------------------------------------------------------
(* The revision: acks carry what the task's revision was.  While the manifest *)
(* can be read it only grows, and the acks carry it in its order.             *)

(* No bad news on its way: what Served asks of the acks, of a client at work. *)
Heard == Going /\ \A i \in DOMAIN s2c : s2c[i].code = "ok"
Good == Alive /\ \A i \in DOMAIN s2c : s2c[i].code = "ok"

StoreAhead == taskRev <= storeRev

Revisions == Good =>
    /\ s2c = <<>> => taskRev = Known
    /\ s2c # <<>> => taskRev = s2c[Len(s2c)].rev
    /\ \A i, j \in DOMAIN s2c : i < j => s2c[i].rev <= s2c[j].rev
    /\ sync.at = "upload" => \A i \in DOMAIN s2c : sync.top <= s2c[i].rev

(* Bad news is not forgotten: its batch is awaited, so it ends the client's   *)
(* work or fails the initial sync.                                            *)
LEMMA BadNewsStays ==
  ASSUME Typed, Phases, Answers, [Next]_vars, Good'
  PROVE  /\ Good /\ StepKind
         /\ AckTaken => ReceiveAck /\ Accepted(Head(s2c))
<1>1. Alive /\ StepKind
  BY StepKinds DEF Good
<1>2. CASE UNCHANGED s2c /\ ~AckTaken
  BY <1>1, <1>2 DEF Good
<1>3. CASE ServeDelta /\ ~AckTaken
  <2>1. \A i \in DOMAIN s2c : i \in DOMAIN s2c' /\ s2c'[i] = s2c[i]
    BY <1>3, AckAppended
  <2> QED BY <1>1, <1>3, <2>1 DEF Good
<1>4. CASE AckTaken
  <2>1. s2c # <<>> /\ s2c' = Tail(s2c)
    BY <1>4 DEF AckTaken, ReceiveAck
  <2>2. /\ 1 \in DOMAIN s2c /\ Head(s2c) = s2c[1] /\ Len(s2c) \in Nat
        /\ DOMAIN s2c = 1..Len(s2c) /\ DOMAIN s2c' = 1..Len(s2c') /\ Len(s2c') = Len(s2c) - 1
        /\ \A i \in DOMAIN s2c' : i \in Nat /\ i + 1 \in DOMAIN s2c /\ s2c'[i] = s2c[i + 1]
    BY <2>1, HeadAck
  <2>3. ReceiveAck /\ Accepted(Head(s2c)) /\ Head(s2c).code = "ok"
    <3>1. ~Ignored(Head(s2c))
      BY <1>1, <2>2 DEF Ignored, Answers
    <3> QED BY <1>4, <3>1 DEF AckTaken, Accepted
  <2>4. ASSUME NEW i \in DOMAIN s2c
        PROVE  s2c[i].code = "ok"
    <3>1. CASE i = 1
      BY <2>2, <2>3, <3>1
    <3>2. CASE i # 1
      <4>1. i - 1 \in DOMAIN s2c' /\ i - 1 + 1 = i
        BY <2>2, <3>2
      <4>2. s2c'[i - 1] = s2c[i]
        BY <2>2, <4>1
      <4> QED BY <4>1, <4>2 DEF Good
    <3> QED BY <3>1, <3>2
  <2> QED BY <1>1, <2>3, <2>4 DEF Good
<1> QED BY <1>1, <1>2, <1>3, <1>4
        DEF StepKind, QueuesRest, DeltaSent, CompleteSent, OtherServed

(* The revision an accepted ack carries is the one the client takes over.     *)
LEMMA AcceptedKnown ==
  ASSUME Typed, Good, Revisions, s2c # <<>>, Accepted(Head(s2c))
  PROVE  Known' = Head(s2c).rev
<1> DEFINE ack == Head(s2c)
<1>1. sync \in Sync /\ s2c \in Seq(Acks)
  BY DEF Typed, TypeOK, Acks
<1>2. 1 \in DOMAIN s2c /\ ack = s2c[1] /\ ack.rev \in Nat
  <2>1. 1 \in DOMAIN s2c /\ ack = s2c[1] /\ ack \in Acks
    BY <1>1
  <2> QED BY <2>1 DEF Acks
<1> HIDE DEF ack
<1>3. Accepted(ack)
  BY DEF ack
<1>4. CASE sync.at = "meta"
  BY <1>1, <1>3, <1>4 DEF Accepted, Known, Sync, ack
<1>5. CASE sync.at = "upload"
  <2>1. sync.top <= ack.rev /\ sync.top \in Nat
    BY <1>1, <1>2, <1>5 DEF Revisions, Sync
  <2>2. sync' = [sync EXCEPT !.top = IF ack.rev > @ THEN ack.rev ELSE @]
    BY <1>3, <1>5 DEF Accepted
  <2>3. (IF ack.rev > sync.top THEN ack.rev ELSE sync.top) = ack.rev
    BY <1>2, <2>1
  <2>4. sync'.at = "upload" /\ sync'.top = ack.rev
    BY <1>1, <1>5, <2>2, <2>3 DEF Sync
  <2> QED BY <2>4 DEF Known, ack
<1>6. CASE sync.at = "pushed"
  BY <1>1, <1>3, <1>6 DEF Accepted, Known, Sync, ack
<1>7. CASE sync.at \notin {"meta", "upload", "pushed"}
  BY <1>3, <1>7 DEF Accepted, Known, ack
<1> QED BY <1>4, <1>5, <1>6, <1>7

LEMMA ReadRight ==
  ASSUME ~Faults
  PROVE  ManifestsRead = {Manifest}
  BY DEF ManifestsRead

LEMMA InitRevisions == Init => StoreAhead /\ Revisions
  BY DEF Init, StoreAhead, Revisions, Known, NewSync

LEMMA StepStoreAhead ==
  ASSUME ~Faults, Typed, StoreAhead, [Next]_vars
  PROVE  StoreAhead'
<1>1. taskRev \in Nat /\ storeRev \in Nat
  BY DEF Typed, TypeOK
<1>2. CASE ServeDelta
  BY <1>1, <1>2, ReadRight DEF ServeDelta, StoreAhead, Manifest
<1>3. CASE OtherWriter
  BY <1>1, <1>3, ReadRight DEF OtherWriter, StoreAhead, Manifest
<1>4. CASE UNCHANGED <<taskRev, storeRev>>
  BY <1>4 DEF StoreAhead
<1>6. CASE ServeComplete
  BY <1>4, <1>6, ReadRight DEF ServeComplete, Manifest
<1>5. Client => UNCHANGED server
  BY DEF Client, WatcherIndexes, WatcherArms, FlushTimer, Flush, Walk, SendMeta, UploadCrashes,
         UploadFails, Uploaded, PushBuffered, SendComplete, StartWatching, Hash, HashFails,
         SendUpload, Drain, ReceiveAck
<1> QED BY <1>2, <1>3, <1>4, <1>5, <1>6
        DEF Next, Server, ServeFault, Edit, Remove, Written, WatcherFails, Sweep,
            AckTimeout, vars, server

LEMMA StepRevisions ==
  ASSUME ~Faults, Typed, Typed', Phases, Answers, StoreAhead, Revisions, [Next]_vars
  PROVE  Revisions'
<1> SUFFICES ASSUME Good' PROVE Revisions'
  BY DEF Revisions
<1>0. /\ Good /\ StepKind
      /\ AckTaken => ReceiveAck /\ Accepted(Head(s2c))
  BY BadNewsStays
<1>1. /\ s2c = <<>> => taskRev = Known
      /\ s2c # <<>> => taskRev = s2c[Len(s2c)].rev
      /\ \A i, j \in DOMAIN s2c : i < j => s2c[i].rev <= s2c[j].rev
      /\ sync.at = "upload" => \A i \in DOMAIN s2c : sync.top <= s2c[i].rev
  BY <1>0 DEF Revisions
<1>2. /\ s2c \in Seq(Acks) /\ s2c' \in Seq(Acks') /\ sync \in Sync
      /\ rev \in Nat /\ taskRev \in Nat /\ storeRev \in Nat
  BY DEF Typed, TypeOK, Acks
<1>3. /\ DOMAIN s2c = 1..Len(s2c) /\ Len(s2c) \in Nat /\ (s2c = <<>> <=> Len(s2c) = 0)
      /\ \A i \in DOMAIN s2c : s2c[i].rev \in Nat
      /\ (s2c' = <<>> <=> Len(s2c') = 0)
  <2>1. DOMAIN s2c = 1..Len(s2c) /\ Len(s2c) \in Nat /\ (s2c = <<>> <=> Len(s2c) = 0)
    BY <1>2
  <2>2. s2c' = <<>> <=> Len(s2c') = 0
    BY <1>2
  <2>3. \A i \in DOMAIN s2c : s2c[i] \in Acks
    BY <1>2
  <2>4. \A ack \in Acks : ack.rev \in Nat
    BY DEF Acks
  <2> QED BY <2>1, <2>2, <2>3, <2>4
<1>4. sync.top \in Nat
  BY <1>2 DEF Sync
<1>5. CASE UNCHANGED <<s2c, taskRev>> /\ Kept
  <2>1. Known' = Known
    BY <1>5 DEF Kept
  <2>2. ASSUME sync'.at = "upload", s2c # <<>>
        PROVE  sync.at = "upload" /\ sync'.top = sync.top
    BY <1>5, <2>1, <2>2 DEF Kept, Known
  <2>3. sync'.at = "upload" => \A i \in DOMAIN s2c : sync'.top <= s2c[i].rev
    BY <1>1, <1>3, <2>2
  <2> QED BY <1>1, <1>5, <2>1, <2>3 DEF Revisions
<1>6. CASE ServeDelta /\ Kept
  <2>1. PICK code \in Codes, revision \in Nat :
           /\ code = "ok" => revision = taskRev'
           /\ Len(s2c') = Len(s2c) + 1
           /\ DOMAIN s2c' = 1..Len(s2c')
           /\ \A i \in DOMAIN s2c : s2c'[i] = s2c[i]
           /\ s2c'[Len(s2c')] = Ack(Head(c2s).id, code, revision)
    BY <1>6, AckAppended
  <2>2. Len(s2c') \in DOMAIN s2c' /\ (\A i \in DOMAIN s2c' : i \in DOMAIN s2c \/ i = Len(s2c'))
    BY <1>3, <2>1
  <2>3. code = "ok" /\ s2c'[Len(s2c')].rev = taskRev'
    BY <2>1, <2>2 DEF Good, Ack
  <2>4. taskRev' = storeRev + 1
    <3>1. s2c' = Append(s2c, Ack(Head(c2s).id, "ok", storeRev + 1)) \/ s2c'[Len(s2c')].code # "ok"
      <4>1. \A c, r : Reply(Head(c2s).id, c, r) =>
                         s2c'[Len(s2c')].code = c
        BY <1>2, <2>1 DEF Reply, Ack
      <4>2. \A manifest \in ManifestsRead : manifest.rev = storeRev
        BY ReadRight DEF Manifest
      <4>3. CASE storeRev' = storeRev + 1 /\ Reply(Head(c2s).id, "ok", storeRev')
        BY <4>3 DEF Reply
      <4>4. ASSUME NEW c \in Codes, c # "ok", Reply(Head(c2s).id, c, 0)
            PROVE  s2c'[Len(s2c')].code # "ok"
        BY <4>1, <4>4
      <4>5. "STORE_WRITE_FAILED" \in Codes /\ Verdict(Head(c2s)) \in Codes
        BY DEF Codes, Verdict
      <4> QED BY <1>6, <4>2, <4>3, <4>4, <4>5 DEF ServeDelta
    <3>2. s2c' = Append(s2c, Ack(Head(c2s).id, "ok", storeRev + 1))
      BY <2>1, <2>3, <3>1 DEF Ack
    <3>3. s2c'[Len(s2c')] = Ack(Head(c2s).id, "ok", storeRev + 1)
      BY <1>2, <2>1, <3>2
    <3> QED BY <2>3, <3>3 DEF Ack
  <2>5. \A i \in DOMAIN s2c : s2c[i].rev <= taskRev
    <3>1. ASSUME NEW i \in DOMAIN s2c
          PROVE  s2c[i].rev <= s2c[Len(s2c)].rev
      <4>1. CASE i < Len(s2c)
        BY <1>1, <1>3, <4>1
      <4>2. CASE i = Len(s2c)
        BY <1>3, <4>2
      <4> QED BY <1>3, <4>1, <4>2
    <3> QED BY <1>1, <1>3, <3>1
  <2>6. sync.at = "upload" => sync.top <= taskRev
    <3>1. CASE s2c = <<>>
      BY <1>1, <1>4, <3>1 DEF Known
    <3>2. CASE s2c # <<>>
      <4>1. 1 \in DOMAIN s2c
        BY <1>3, <3>2
      <4> QED BY <1>1, <1>2, <1>3, <1>4, <2>5, <4>1
    <3> QED BY <3>1, <3>2
  <2>7. taskRev < taskRev'
    BY <1>2, <2>4 DEF StoreAhead
  <2>8. sync' = sync
    BY <1>6 DEF ServeDelta, machine
  <2>9. ASSUME NEW i \in DOMAIN s2c', NEW j \in DOMAIN s2c', i < j
        PROVE  s2c'[i].rev <= s2c'[j].rev
    <3>1. i \in DOMAIN s2c
      BY <1>3, <2>1, <2>9
    <3>2. CASE j \in DOMAIN s2c
      BY <1>1, <2>1, <2>9, <3>1, <3>2
    <3>3. CASE j = Len(s2c')
      BY <1>2, <1>3, <2>1, <2>3, <2>4, <2>5, <2>7, <3>1, <3>3
    <3> QED BY <2>2, <3>2, <3>3
  <2>10. ASSUME sync'.at = "upload", NEW i \in DOMAIN s2c'
         PROVE  sync'.top <= s2c'[i].rev
    <3>1. CASE i \in DOMAIN s2c
      BY <1>1, <2>1, <2>8, <2>10, <3>1
    <3>2. CASE i = Len(s2c')
      BY <1>2, <1>4, <2>3, <2>4, <2>6, <2>7, <2>8, <2>10, <3>2
    <3> QED BY <2>2, <3>1, <3>2
  <2> QED BY <1>3, <2>1, <2>3, <2>9, <2>10 DEF Revisions
<1>7. CASE AckTaken
  <2>1. s2c # <<>> /\ s2c' = Tail(s2c) /\ taskRev' = taskRev /\ Accepted(Head(s2c))
    BY <1>0, <1>7 DEF ReceiveAck, server
  <2>2. /\ 1 \in DOMAIN s2c /\ Head(s2c) = s2c[1]
        /\ DOMAIN s2c' = 1..Len(s2c') /\ Len(s2c') = Len(s2c) - 1
        /\ \A i \in DOMAIN s2c' : i \in Nat /\ i + 1 \in DOMAIN s2c /\ s2c'[i] = s2c[i + 1]
    BY <2>1, HeadAck
  <2>3. Known' = s2c[1].rev
    BY <1>0, <2>1, <2>2, AcceptedKnown
  <2>4. s2c' = <<>> => taskRev' = Known'
    <3>1. s2c' = <<>> => Len(s2c) = 1
      BY <1>3, <2>2
    <3> QED BY <1>1, <2>1, <2>3, <3>1
  <2>5. s2c' # <<>> => taskRev' = s2c'[Len(s2c')].rev
    <3>1. s2c' # <<>> => Len(s2c') \in DOMAIN s2c' /\ Len(s2c') + 1 = Len(s2c)
      BY <1>3, <2>2
    <3> QED BY <1>1, <2>1, <2>2, <3>1
  <2>6. \A i, j \in DOMAIN s2c' : i < j => s2c'[i].rev <= s2c'[j].rev
    BY <1>1, <2>2
  <2>7. \A i \in DOMAIN s2c' : Known' <= s2c'[i].rev
    <3>1. \A i \in DOMAIN s2c' : 1 < i + 1
      BY <2>2
    <3> QED BY <1>1, <2>2, <2>3, <3>1
  <2>8. sync'.at = "upload" => sync'.top = Known'
    BY DEF Known
  <2> QED BY <2>4, <2>5, <2>6, <2>7, <2>8 DEF Revisions
<1> QED BY <1>0, <1>5, <1>6, <1>7 DEF StepKind, QueuesRest, DeltaSent, CompleteSent, OtherServed

LEMMA RevisionsAlways ==
  ASSUME ~Faults
  PROVE  Spec => [](StoreAhead /\ Revisions)
<1>1. /\ Typed /\ Typed' /\ Phases /\ Answers /\ StoreAhead /\ Revisions /\ [Next]_vars
      => StoreAhead' /\ Revisions'
  BY StepStoreAhead, StepRevisions
<1> QED BY <1>1, InitRevisions, TypedAlways, PhasesAlways, AnswersAlways, PTL DEF Spec

-----------------------------------------------------------------------------
(* A manifest that cannot be read lowers the revision.  The client may then   *)
(* end its initial sync on a revision the task no longer has, but it is not   *)
(* ready with it: its cache_sync_complete is on the wire until the server     *)
(* sees what it claims.                                                       *)

IsComplete(i) == c2s[i].kind = "complete"

Reached == Good =>
    /\ s2c # <<>> => taskRev = s2c[Len(s2c)].rev
    /\ s2c = <<>> => taskRev <= Known
    /\ \A i \in DOMAIN c2s : IsComplete(i) => i = 1 /\ s2c = <<>> /\ c2s[i].base = Known
    /\ ready => sync.at \in {"sent", "over"}
    /\ ready /\ executor /\ s2c = <<>> => taskRev = Known

LEMMA InitReached == Init => Reached
  BY DEF Init, Reached, Known, NewSync

\* What the client takes over from an ack.
LEMMA AcceptedReaches ==
  ASSUME Typed, s2c # <<>>, Accepted(Head(s2c))
  PROVE  /\ Head(s2c).rev <= Known'
         /\ sync.at # "upload" => Known' = Head(s2c).rev
         /\ sync.at \in {"sent", "over"} => sync'.at = sync.at
<1> DEFINE ack == Head(s2c)
<1>1. sync \in Sync /\ s2c \in Seq(Acks)
  BY DEF Typed, TypeOK, Acks
<1>2. ack.rev \in Nat
  <2>1. ack \in Acks
    BY <1>1
  <2> QED BY <2>1 DEF Acks
<1> HIDE DEF ack
<1>3. Accepted(ack)
  BY DEF ack
<1>4. CASE sync.at = "meta"
  <2>1. sync'.at = "upload" /\ sync'.top = ack.rev
    BY <1>1, <1>3, <1>4 DEF Accepted, Sync
  <2>2. Known' = ack.rev
    BY <2>1 DEF Known
  <2> QED BY <1>2, <1>4, <2>2 DEF ack
<1>5. CASE sync.at = "upload"
  <2>1. sync.top \in Nat
    BY <1>1 DEF Sync
  <2>2. sync' = [sync EXCEPT !.top = IF ack.rev > @ THEN ack.rev ELSE @]
    BY <1>3, <1>5 DEF Accepted
  <2>3. ack.rev <= (IF ack.rev > sync.top THEN ack.rev ELSE sync.top)
    BY <1>2, <2>1
  <2>4. sync'.at = "upload" /\ ack.rev <= sync'.top
    BY <1>1, <1>5, <2>2, <2>3 DEF Sync
  <2> QED BY <1>5, <2>4 DEF Known, ack
<1>6. CASE sync.at = "pushed"
  BY <1>1, <1>2, <1>3, <1>6 DEF Accepted, Known, Sync, ack
<1>7. CASE sync.at \notin {"meta", "upload", "pushed"}
  BY <1>2, <1>3, <1>7 DEF Accepted, Known, ack
<1> QED BY <1>4, <1>5, <1>6, <1>7

\* The stages go one way: after its cache_sync_complete a task uploads no more.
LEMMA SentStays ==
  ASSUME Typed, Phases, Going', [Next]_vars, sync.at \in {"sent", "over"}
  PROVE  sync'.at \in {"sent", "over"}
<1>a. ASSUME Passive \/ PassiveWithFault PROVE sync'.at \in {"sent", "over"}
  <2>1. PICK message \in Silence : GiveUp(message)
    BY <1>a DEF Passive, PassiveWithFault, Silence
  <2> QED BY <2>1, GiveUpTyped
<1>1. CASE UNCHANGED sync
  BY <1>1
<1>2. CASE StartWatching
  BY <1>2 DEF StartWatching, NewSync
<1>3. CASE Flush
  BY <1>3, FlushAdvances
<1>4. CASE ReceiveAck
  <2>1. CASE Accepted(Head(s2c))
    BY <1>4, <2>1, AcceptedReaches DEF ReceiveAck
  <2>2. CASE Refused(Head(s2c)) /\ ~Passive
    BY <2>2 DEF Refused
  <2>3. CASE Ignored(Head(s2c))
    BY <1>1, <2>3 DEF Ignored
  <2> QED BY <1>4, <1>a, <2>1, <2>2, <2>3 DEF ReceiveAck
<1>5. CASE WatcherArms
  BY <1>5 DEF WatcherArms, Phases, Stages
<1>6. CASE \E c \in sync.plan : SendUpload(c)
  BY <1>6 DEF SendUpload
<1> QED BY <1>a, <1>1, <1>2, <1>3, <1>4, <1>5, <1>6
        DEF Next, Client, Server, WatcherIndexes, FlushTimer, Walk, SendMeta, UploadCrashes,
            UploadFails, Uploaded, PushBuffered, SendComplete, Hash, HashFails, Drain, ServeDelta,
            ServeComplete, ServeFault, Edit, Remove, Written, WatcherFails, Sweep, OtherWriter,
            AckTimeout, vars, machine

(* Nothing on the wire is waited for by nobody: at most one batch outside the *)
(* upload loop, none if none is awaited.                                      *)
LEMMA WireIsAwaited ==
  ASSUME Typed, Phases, Answers, Alive
  PROVE  /\ awaited = {} => s2c = <<>> /\ \A i \in DOMAIN c2s : ~IsDelta(i)
         /\ sync.at # "upload" =>
              \A i, j \in DOMAIN c2s : IsDelta(i) /\ IsDelta(j) => i = j
<1>1. c2s \in Seq(Request) /\ s2c \in Seq(Acks)
  BY DEF Typed, TypeOK, MessagesOK, Acks
<1>2. awaited = {} => DOMAIN s2c = {} /\ \A i \in DOMAIN c2s : ~IsDelta(i)
  BY DEF Answers
<1>3. awaited = {} => s2c = <<>>
  BY <1>1, <1>2
<1>4. ASSUME sync.at # "upload", NEW i \in DOMAIN c2s, NEW j \in DOMAIN c2s,
             IsDelta(i), IsDelta(j), i # j
      PROVE  FALSE
  <2>1. awaited \subseteq {batches} /\ batches \in Nat
    <3>1. sync.at \in {"start", "walk", "hash", "flush", "push", "complete", "sent",
                       "meta", "pushed", "over"}
      BY <1>4 DEF Typed, TypeOK, Sync
    <3> QED BY <3>1 DEF Phases, OneAwaited, Typed, TypeOK
  <2>2. c2s[i].id = batches /\ c2s[j].id = batches
    BY <1>4, <2>1 DEF Answers
  <2>3. i \in Nat /\ j \in Nat
    BY <1>1
  <2>4. i < j \/ j < i
    BY <1>4, <2>3
  <2>5. c2s[i].id < c2s[j].id \/ c2s[j].id < c2s[i].id
    BY <1>4, <2>4 DEF Answers, Order
  <2> QED BY <2>1, <2>2, <2>5
<1> QED BY <1>2, <1>3, <1>4

LEMMA StepReached ==
  ASSUME Typed, Typed', Phases, Phases', Answers, Reached, [Next]_vars
  PROVE  Reached'
<1> SUFFICES ASSUME Good' PROVE Reached'
  BY DEF Reached
<1>0. /\ Good /\ StepKind
      /\ AckTaken => ReceiveAck /\ Accepted(Head(s2c))
  BY BadNewsStays
<1>1. /\ s2c # <<>> => taskRev = s2c[Len(s2c)].rev
      /\ s2c = <<>> => taskRev <= Known
      /\ \A i \in DOMAIN c2s : IsComplete(i) => i = 1 /\ s2c = <<>> /\ c2s[i].base = Known
      /\ ready => sync.at \in {"sent", "over"}
      /\ ready /\ executor /\ s2c = <<>> => taskRev = Known
  BY <1>0 DEF Reached
<1>2. /\ s2c \in Seq(Acks) /\ c2s \in Seq(Request) /\ sync \in Sync
      /\ rev \in Nat /\ taskRev \in Nat /\ Known \in Nat
  <2>1. /\ s2c \in Seq(Acks) /\ c2s \in Seq(Request) /\ sync \in Sync
        /\ rev \in Nat /\ taskRev \in Nat
    BY DEF Typed, TypeOK, MessagesOK, Acks
  <2>2. sync.top \in Nat
    BY <2>1 DEF Sync
  <2> QED BY <2>1, <2>2 DEF Known
<1>3. UNCHANGED <<executor, ready>> \/ Server \/ Sweep
  BY DEF Next, Client, WatcherIndexes, WatcherArms, FlushTimer, Flush, Walk, SendMeta,
         UploadCrashes, UploadFails, Uploaded, PushBuffered, SendComplete, StartWatching, Hash,
         HashFails, SendUpload, Drain, ReceiveAck, Edit, Remove, Written, WatcherFails,
         OtherWriter, AckTimeout, vars, server
<1>4. sync.at \in {"sent", "over"} => sync'.at \in {"sent", "over"}
  BY SentStays DEF Good, Alive
<1>5. ((ready' => ready) /\ (executor' => executor)) \/ Server
  BY <1>3 DEF Sweep
<1>6. CASE QueuesRest /\ Kept
  <2>1. UNCHANGED <<c2s, s2c, taskRev>> /\ Known' = Known
    BY <1>6 DEF QueuesRest, Kept
  <2>2. ~ServeDelta /\ ~ServeComplete /\ ~ServeFault
    BY <1>2, <2>1 DEF ServeDelta, ServeComplete, ServeFault
  <2> QED BY <1>1, <1>4, <1>5, <2>1, <2>2 DEF Reached, IsComplete, Server
<1>7. CASE DeltaSent /\ Kept
  <2>1. PICK base \in Nat, changes \in SUBSET Change : Send(base, changes)
    BY <1>7 DEF DeltaSent
  <2>2. /\ \A i \in DOMAIN c2s' : i \in DOMAIN c2s \/ i = Len(c2s')
        /\ \A i \in DOMAIN c2s : c2s'[i] = c2s[i]
        /\ c2s'[Len(c2s')] = Delta(base, changes) /\ Len(c2s') = Len(c2s) + 1
    BY <2>1, SendTyped
  <2>3. Delta(base, changes).kind = "delta"
    BY DEF Delta
  <2>4. UNCHANGED <<s2c, taskRev>> /\ Known' = Known
    BY <1>7 DEF DeltaSent, Kept
  <2>5. ~Server
    <3>1. Len(c2s') > Len(c2s)
      BY <1>2, <2>2
    <3> QED BY <1>2, <3>1 DEF Server, ServeDelta, ServeComplete, ServeFault
  <2>6. \A i \in DOMAIN c2s' : c2s'[i].kind = "complete" => i \in DOMAIN c2s /\ IsComplete(i)
    BY <2>2, <2>3 DEF IsComplete
  <2> QED BY <1>1, <1>4, <1>5, <2>2, <2>4, <2>5, <2>6 DEF Reached, IsComplete
<1>8. CASE CompleteSent /\ Kept
  <2> DEFINE done == [kind |-> "complete", base |-> rev]
  <2>1. awaited = {} /\ \A i \in DOMAIN c2s : IsDelta(i)
    BY <1>8 DEF CompleteSent, Phases, OneAwaited, Sent
  <2>2. s2c = <<>> /\ \A i \in DOMAIN c2s : ~IsDelta(i)
    BY <1>0, <2>1, WireIsAwaited DEF Good
  <2>3. c2s = <<>>
    <3>1. DOMAIN c2s = {}
      BY <2>1, <2>2
    <3> QED BY <1>2, <3>1
  <2>4. c2s' = <<done>> /\ UNCHANGED <<s2c, taskRev>> /\ Known' = Known /\ Known = rev
    BY <1>8, <2>3 DEF CompleteSent, Kept, Known
  <2>5. DOMAIN c2s' = {1} /\ c2s'[1].base = rev
    BY <2>4
  <2>6. ~Server
    BY <2>3 DEF Server, ServeDelta, ServeComplete, ServeFault
  <2> QED BY <1>1, <1>4, <1>5, <2>2, <2>4, <2>5, <2>6 DEF Reached, IsComplete
<1>c. ASSUME c2s # <<>>, c2s' = Tail(c2s)
      PROVE  \A i \in DOMAIN c2s' : c2s'[i].kind # "complete"
  <2>1. \A i \in DOMAIN c2s' : i \in Nat /\ i # 0 /\ i + 1 \in DOMAIN c2s /\ c2s'[i] = c2s[i + 1]
    BY <1>c, HeadRequest
  <2> QED BY <1>1, <2>1 DEF IsComplete
<1>9. CASE OtherServed /\ Kept
  <2>1. /\ c2s # <<>> /\ c2s' = Tail(c2s) /\ UNCHANGED <<s2c, taskRev>> /\ Known' = Known
        /\ ServeComplete \/ ServeFault
    BY <1>9 DEF OtherServed, Kept
  <2>2. \A i \in DOMAIN c2s' : c2s'[i].kind # "complete"
    BY <1>c, <2>1
  <2>3. CASE (ready' => ready) /\ (executor' => executor)
    BY <1>1, <1>4, <2>1, <2>2, <2>3 DEF Reached, IsComplete
  <2>4. CASE ServeComplete /\ executor /\ taskRev >= Head(c2s).base
    <3>1. 1 \in DOMAIN c2s /\ IsComplete(1) /\ Head(c2s) = c2s[1]
      BY <2>1, <2>4, HeadRequest DEF ServeComplete, IsComplete
    <3>2. s2c = <<>> /\ taskRev = Known
      BY <1>1, <1>2, <2>4, <3>1
    <3>3. sync.at \in {"sent", "over"}
      BY <3>1 DEF Phases, Sent, IsComplete, IsDelta
    <3> QED BY <1>2, <1>4, <2>1, <2>2, <3>2, <3>3 DEF Reached, IsComplete
  <2>5. ServeFault => ~ready' /\ ~executor'
    BY DEF ServeFault
  <2>6. ServeComplete /\ ~(executor /\ taskRev >= Head(c2s).base)
        => (ready' => ready) /\ (executor' => executor)
    <3>1. SUFFICES ASSUME ServeComplete, ~(executor /\ taskRev >= Head(c2s).base)
                   PROVE  (ready' => ready) /\ (executor' => executor)
      OBVIOUS
    <3>2. \/ executor' = FALSE /\ ready' = FALSE
          \/ UNCHANGED <<executor, ready>>
      BY <3>1 DEF ServeComplete
    <3> QED BY <3>2
  <2> QED BY <2>1, <2>3, <2>4, <2>5, <2>6
<1>10. CASE ServeDelta /\ Kept
  <2>1. PICK code \in Codes, revision \in Nat :
           /\ code = "ok" => revision = taskRev'
           /\ Len(s2c') = Len(s2c) + 1 /\ Len(s2c) \in Nat
           /\ DOMAIN s2c' = 1..Len(s2c')
           /\ s2c'[Len(s2c')] = Ack(Head(c2s).id, code, revision)
    BY <1>10, AckAppended
  <2>2. Len(s2c') \in DOMAIN s2c' /\ s2c' # <<>>
    BY <2>1
  <2>3. s2c'[Len(s2c')].rev = taskRev'
    BY <2>1, <2>2 DEF Good, Ack
  <2>4. \A i \in DOMAIN c2s' : c2s'[i].kind # "complete"
    BY <1>10, <1>c DEF ServeDelta
  <2>5. ready' = ready
    BY <1>10 DEF ServeDelta
  <2> QED BY <1>1, <1>4, <2>2, <2>3, <2>4, <2>5 DEF Reached, IsComplete
<1>11. CASE AckTaken
  <2>1. /\ s2c # <<>> /\ s2c' = Tail(s2c) /\ c2s' = c2s /\ Accepted(Head(s2c))
        /\ UNCHANGED <<taskRev, executor, ready>>
    BY <1>0, <1>11 DEF ReceiveAck, Accepted, server
  <2>2. /\ 1 \in DOMAIN s2c /\ Head(s2c) = s2c[1] /\ Len(s2c) \in Nat
        /\ DOMAIN s2c = 1..Len(s2c) /\ s2c' \in Seq(Acks)
        /\ DOMAIN s2c' = 1..Len(s2c') /\ Len(s2c') = Len(s2c) - 1
        /\ \A i \in DOMAIN s2c' : i \in Nat /\ i + 1 \in DOMAIN s2c /\ s2c'[i] = s2c[i + 1]
    BY <2>1, HeadAck
  <2>3. /\ s2c[1].rev <= Known'
        /\ sync.at \in {"sent", "over"} => Known' = s2c[1].rev
    BY <2>1, <2>2, AcceptedReaches
  <2>4. s2c' = <<>> => taskRev = s2c[1].rev
    BY <1>1, <2>1, <2>2
  <2>5. s2c' # <<>> => taskRev = s2c'[Len(s2c')].rev
    <3>1. s2c' # <<>> => Len(s2c') \in DOMAIN s2c' /\ Len(s2c') + 1 = Len(s2c)
      BY <2>2
    <3> QED BY <1>1, <2>1, <2>2, <3>1
  <2>6. \A i \in DOMAIN c2s : ~IsComplete(i)
    BY <1>1, <2>1
  <2> QED BY <1>1, <1>4, <2>1, <2>3, <2>4, <2>5, <2>6 DEF Reached, IsComplete
<1> QED BY <1>0, <1>6, <1>7, <1>8, <1>9, <1>10, <1>11 DEF StepKind

LEMMA ReachedAlways == Spec => []Reached
<1>1. Typed /\ Typed' /\ Phases /\ Phases' /\ Answers /\ Reached /\ [Next]_vars => Reached'
  BY StepReached
<1> QED BY <1>1, InitReached, TypedAlways, PhasesAlways, AnswersAlways, PTL DEF Spec

\* When a task is served, no ack came late and none is awaited, the client and
\* the server agree on the revision the next live batch builds on: whatever
\* the acks overtook, predicted or crossed on the way, and even if a manifest
\* that could not be read set the revision back.
THEOREM SpecRevisionsAgree == Spec => []RevisionsAgree
<1>1. ASSUME Typed, Phases, Answers, Reached PROVE RevisionsAgree
  <2> SUFFICES ASSUME Served, timeouts = 0, awaited = {} PROVE rev = taskRev
    BY DEF RevisionsAgree
  <2>1. Good /\ sync.at # "upload"
    BY <1>1 DEF Served, Good, Alive, Going, Working, Phases, Stages
  <2>2. s2c = <<>>
    <3>1. s2c \in Seq(Acks) /\ DOMAIN s2c = {}
      BY <1>1, <2>1 DEF Typed, TypeOK, Acks, Answers, Good
    <3> QED BY <3>1
  <2> QED BY <1>1, <2>1, <2>2 DEF Reached, Known, Served
<1> QED BY <1>1, TypedAlways, PhasesAlways, AnswersAlways, ReachedAlways, PTL

-----------------------------------------------------------------------------
(* A scan cache that knows no hash: every declared hash is the content's.     *)

Honest(changes) == \A c \in changes : c.sha = c.content

Hashes == Hits = {} =>
    /\ Honest(buffered) /\ Honest(pending) /\ Honest(sync.plan)
    /\ \A i \in DOMAIN c2s : IsDelta(i) => Honest(c2s[i].changes)

LEMMA FoundAreHonest ==
  ASSUME NEW paths
  PROVE  Honest(Found(paths)) /\ Honest(Deleted(paths))
  BY DEF Honest, Found, Upserted, Deleted

LEMMA SentHonest ==
  ASSUME Typed, Hashes, Hits = {},
         NEW base \in Nat, NEW changes \in SUBSET Change, Send(base, changes), Honest(changes)
  PROVE  \A i \in DOMAIN c2s' : c2s'[i].kind = "delta" => Honest(c2s'[i].changes)
<1>1. Delta(base, changes).changes = changes
  BY DEF Delta
<1> QED BY <1>1, SendTyped DEF Hashes, IsDelta

LEMMA GivenUpHonest ==
  ASSUME Typed, Hashes, Hits = {}, Passive \/ PassiveWithFault
  PROVE  Hashes'
<1>1. PICK message \in Silence : GiveUp(message)
  BY DEF Passive, PassiveWithFault, Silence
<1>2. \A i \in DOMAIN c2s' : c2s'[i].kind = "delta" => i \in DOMAIN c2s /\ c2s'[i] = c2s[i]
  BY <1>1, GiveUpTyped
<1>3. sync'.plan = {} /\ buffered' = {} /\ pending' = {}
  BY <1>1, GiveUpTyped DEF GiveUp
<1>4. \A i \in DOMAIN c2s' : c2s'[i].kind = "delta" => Honest(c2s'[i].changes)
  BY <1>2 DEF Hashes, IsDelta
<1> QED BY <1>3, <1>4 DEF Hashes, IsDelta, Honest

LEMMA InitHashes == Init => Hashes
  BY DEF Init, Hashes, Honest, NewSync

LEMMA StepHashes ==
  ASSUME Typed, Hashes, [Next]_vars
  PROVE  Hashes'
<1> SUFFICES ASSUME Hits = {} PROVE Hashes'
  BY DEF Hashes
<1>0. sync \in Sync /\ rev \in Nat /\ buffered \in SUBSET Change /\ pending \in SUBSET Change
  BY DEF Typed, TypeOK
<1>a. ASSUME UNCHANGED <<buffered, pending, c2s>>, sync'.plan = sync.plan PROVE Hashes'
  BY <1>a DEF Hashes, IsDelta
<1>b. ASSUME UNCHANGED <<buffered, pending, sync>>, c2s # <<>>, c2s' = Tail(c2s) PROVE Hashes'
  <2>1. \A i \in DOMAIN c2s' : i + 1 \in DOMAIN c2s /\ c2s'[i] = c2s[i + 1]
    BY <1>b, HeadRequest
  <2> QED BY <1>b, <2>1 DEF Hashes, IsDelta
<1>1. CASE \/ WatcherIndexes \/ FlushTimer \/ Sweep \/ OtherWriter \/ UNCHANGED vars
           \/ \E p \in Paths : Edit(p) \/ Remove(p)
  BY <1>1, <1>a DEF WatcherIndexes, FlushTimer, Sweep, OtherWriter, vars, Edit, Remove, Written, machine
<1>2. CASE WatcherArms
  BY <1>0, <1>2, <1>a DEF WatcherArms, Sync
<1>3. CASE Flush
  <2>1. \A paths : Honest(Found(paths))
    BY FoundAreHonest
  <2>2. \A older, paths : Honest(older) => Honest(Overlay(older, Found(paths)))
    BY <2>1 DEF Honest, Overlay
  <2>3. Honest(buffered') /\ Honest(pending')
    BY <1>3, <2>2 DEF Flush, Hashes
  <2>4. sync'.plan = sync.plan /\ c2s' = c2s
    BY <1>3, FlushAdvances DEF Flush
  <2> QED BY <2>3, <2>4 DEF Hashes, IsDelta
<1>4. CASE Walk
  BY <1>0, <1>4, <1>a DEF Walk, Sync
<1>5. CASE SendMeta
  <2>1. sync'.plan = sync.plan /\ UNCHANGED <<buffered, pending>>
    BY <1>0, <1>5 DEF SendMeta, Sync
  <2>2. CASE sync.deletes = {}
    BY <1>5, <1>a, <2>1, <2>2 DEF SendMeta
  <2>3. CASE sync.deletes # {}
    <3>1. Send(0, Deleted(sync.deletes)) /\ Deleted(sync.deletes) \in SUBSET Change
      BY <1>0, <1>5, <2>3, FoundAreChanges DEF SendMeta, Sync
    <3>2. \A i \in DOMAIN c2s' : c2s'[i].kind = "delta" => Honest(c2s'[i].changes)
      BY <3>1, SentHonest, FoundAreHonest
    <3> QED BY <2>1, <3>2 DEF Hashes, IsDelta
  <2> QED BY <2>2, <2>3
<1>6. CASE UploadCrashes \/ UploadFails \/ WatcherFails
  BY <1>6, GivenUpHonest DEF UploadCrashes, UploadFails, WatcherFails
<1>7. CASE Uploaded
  <2>1. sync'.plan = sync.plan
    BY <1>0, <1>7 DEF Uploaded, Sync
  <2> QED BY <1>7, <1>a, <2>1 DEF Uploaded
<1>8. CASE PushBuffered
  <2>1. sync'.plan = sync.plan /\ pending' = pending /\ Honest(buffered')
    BY <1>0, <1>8 DEF PushBuffered, Sync, Honest
  <2>2. CASE buffered = {}
    BY <1>8, <1>a, <2>1, <2>2 DEF PushBuffered
  <2>3. CASE buffered # {}
    <3>1. Send(rev, buffered)
      BY <1>8, <2>3 DEF PushBuffered
    <3>2. \A i \in DOMAIN c2s' : c2s'[i].kind = "delta" => Honest(c2s'[i].changes)
      BY <1>0, <3>1, SentHonest DEF Hashes
    <3> QED BY <2>1, <3>2 DEF Hashes, IsDelta
  <2> QED BY <2>2, <2>3
<1>9. CASE SendComplete
  <2>1. sync'.plan = sync.plan
    BY <1>0, <1>9 DEF SendComplete, Sync
  <2>2. [kind |-> "complete", base |-> rev] \in Request /\ c2s \in Seq(Request)
    BY <1>0 DEF Typed, MessagesOK, Request
  <2>3. \A i \in DOMAIN c2s' : c2s'[i].kind = "delta" => i \in DOMAIN c2s /\ c2s'[i] = c2s[i]
    BY <1>9, <2>2 DEF SendComplete
  <2> QED BY <1>9, <2>1, <2>3 DEF SendComplete, Hashes, IsDelta
<1>10. CASE StartWatching
  <2>1. sync'.plan = {} /\ UNCHANGED <<buffered, pending, c2s>>
    BY <1>10 DEF StartWatching, NewSync
  <2> QED BY <2>1 DEF Hashes, IsDelta, Honest
<1>11. CASE \E p \in Paths : Hash(p) \/ HashFails(p)
  <2>1. PICK p \in Paths : Hash(p) \/ HashFails(p)
    BY <1>11
  <2>2. CASE Hash(p)
    <3>1. sync' = [sync EXCEPT !.todo = @ \ {p},
                               !.plan = @ \cup {[path |-> p, stat |-> sync.walked[p],
                                                 content |-> local[p], sha |-> local[p]]}]
      BY <2>2 DEF Hash
    <3>2. Honest(sync'.plan)
      BY <1>0, <3>1 DEF Hashes, Honest, Sync
    <3> QED BY <2>2, <3>2 DEF Hash, Hashes, IsDelta
  <2>3. CASE HashFails(p)
    BY <2>3, GivenUpHonest DEF HashFails
  <2> QED BY <2>1, <2>2, <2>3
<1>12. CASE \E c \in sync.plan : SendUpload(c)
  <2>1. PICK c \in sync.plan : SendUpload(c)
    BY <1>12
  <2>2. sync'.plan \subseteq sync.plan /\ UNCHANGED <<buffered, pending>>
    BY <1>0, <2>1 DEF SendUpload, Sync
  <2>3. Send(sync.next, {c}) /\ {c} \in SUBSET Change /\ sync.next \in Nat /\ Honest({c})
    BY <1>0, <2>1 DEF SendUpload, Sync, Hashes, Honest
  <2>4. \A i \in DOMAIN c2s' : c2s'[i].kind = "delta" => Honest(c2s'[i].changes)
    BY <2>3, SentHonest
  <2> QED BY <2>2, <2>4 DEF Hashes, IsDelta, Honest
<1>13. CASE Drain
  <2>1. Send(rev, pending) /\ pending' = {} /\ UNCHANGED <<buffered, sync>>
    BY <1>13 DEF Drain
  <2>2. \A i \in DOMAIN c2s' : c2s'[i].kind = "delta" => Honest(c2s'[i].changes)
    BY <1>0, <2>1, SentHonest DEF Hashes
  <2> QED BY <2>1, <2>2 DEF Hashes, IsDelta, Honest
<1>14. CASE ReceiveAck
  <2> DEFINE ack == Head(s2c)
  <2>1. Accepted(ack) \/ Refused(ack) \/ Ignored(ack)
    BY <1>14 DEF ReceiveAck
  <2> HIDE DEF ack
  <2>2. CASE Accepted(ack)
    <3>1. sync'.plan = sync.plan
      <4>1. CASE sync.at = "meta"
        BY <1>0, <2>2, <4>1 DEF Accepted, Sync
      <4>2. CASE sync.at = "upload"
        BY <1>0, <2>2, <4>2 DEF Accepted, Sync
      <4>3. CASE sync.at = "pushed"
        BY <1>0, <2>2, <4>3 DEF Accepted, Sync
      <4>4. CASE sync.at \notin {"meta", "upload", "pushed"}
        BY <2>2, <4>4 DEF Accepted
      <4> QED BY <4>1, <4>2, <4>3, <4>4
    <3> QED BY <1>a, <2>2, <3>1 DEF Accepted
  <2>3. CASE Refused(ack)
    <3>1. CASE Passive
      BY <3>1, GivenUpHonest
    <3>2. CASE ~Passive
      <4>1. sync' = [sync EXCEPT !.failed = "ack"] /\ UNCHANGED <<buffered, pending, c2s>>
        BY <2>3, <3>2 DEF Refused
      <4> QED BY <1>0, <1>a, <4>1 DEF Sync
    <3> QED BY <3>1, <3>2
  <2>4. CASE Ignored(ack)
    BY <1>a, <2>4 DEF Ignored
  <2> QED BY <2>1, <2>2, <2>3, <2>4
<1>15. CASE Server
  BY <1>15, <1>b DEF Server, ServeDelta, ServeComplete, ServeFault, machine
<1>16. CASE \E id \in awaited : AckTimeout(id)
  <2>1. PICK id \in awaited : AckTimeout(id)
    BY <1>16
  <2>2. CASE PassiveWithFault
    BY <2>2, GivenUpHonest
  <2>3. CASE ~PassiveWithFault
    <3>1. UNCHANGED <<buffered, pending, c2s>> /\ sync'.plan = sync.plan
      BY <1>0, <2>1, <2>3 DEF AckTimeout, Sync
    <3> QED BY <1>a, <3>1
  <2> QED BY <2>2, <2>3
<1> QED BY <1>1, <1>2, <1>3, <1>4, <1>5, <1>6, <1>7, <1>8, <1>9, <1>10, <1>11, <1>12, <1>13,
           <1>14, <1>15, <1>16 DEF Next, Client

LEMMA HashesAlways == Spec => []Hashes
<1>1. Typed /\ Hashes /\ [Next]_vars => Hashes'
  BY StepHashes
<1> QED BY <1>1, InitHashes, TypedAlways, PTL DEF Spec

-----------------------------------------------------------------------------
(* What the upload loop predicts.                                             *)

(* The client writes the manifest alone and nothing fails.                    *)
Quiet == MaxOther = 0 /\ ~Faults /\ Hits = {}

(* The batches on the wire build on the revisions the task will have had when *)
(* it gets to them: one batch further each in the upload loop, and otherwise  *)
(* all on the revision of now.                                                *)
Bases ==
    /\ sync.at = "upload" =>
          /\ \A i \in DOMAIN c2s : c2s[i].base = taskRev + i - 1
          /\ sync.next = taskRev + Len(c2s)
    /\ sync.at # "upload" => \A i \in DOMAIN c2s : IsDelta(i) => c2s[i].base = taskRev

Foreseen ==
    /\ \A i \in DOMAIN s2c : s2c[i].code = "ok"
    /\ sync.failed = "no"
    /\ Working => executor
    /\ ~Working => \A i \in DOMAIN c2s : ~IsDelta(i)
    /\ Bases

Predicted == Quiet => storeRev = taskRev /\ (timeouts = 0 => Foreseen)

LEMMA InitPredicted == Init => Predicted
  BY DEF Init, Predicted, Foreseen, Bases, NewSync

LEMMA QuietIsGood ==
  ASSUME Foreseen, Working, timeouts = 0
  PROVE  Good
  BY DEF Foreseen, Good, Alive, Going

(* A delta on the revision the client knows, when nothing else is under way.  *)
LEMMA SentOnKnown ==
  ASSUME Typed, Typed', Phases, Answers, Revisions, Foreseen, Working, timeouts = 0,
         NEW changes \in SUBSET Change, Send(rev, changes),
         awaited = {}, sync.at # "upload", sync'.at # "upload", taskRev' = taskRev
  PROVE  Bases'
<1>1. Good
  BY QuietIsGood
<1>2. s2c = <<>> /\ \A i \in DOMAIN c2s : ~IsDelta(i)
  BY <1>1, WireIsAwaited DEF Good
<1>3. taskRev = rev /\ rev \in Nat
  BY <1>1, <1>2 DEF Revisions, Known, Typed, TypeOK
<1>4. /\ \A i \in DOMAIN c2s' : i \in DOMAIN c2s \/ i = Len(c2s')
      /\ \A i \in DOMAIN c2s : c2s'[i] = c2s[i]
      /\ c2s'[Len(c2s')] = Delta(rev, changes)
  BY <1>3, SendTyped
<1>5. Delta(rev, changes).base = rev
  BY DEF Delta
<1> QED BY <1>2, <1>3, <1>4, <1>5 DEF Bases, IsDelta

(* The verdict on the delta at the head of the queue.                         *)
LEMMA VerdictOk ==
  ASSUME Typed, Phases, Answers, Hashes, Foreseen, Hits = {}, timeouts = 0,
         c2s # <<>>, Head(c2s).kind = "delta", c2s' = Tail(c2s)
  PROVE  Verdict(Head(c2s)) = "ok" /\ Working
<1>1. 1 \in DOMAIN c2s /\ Head(c2s) = c2s[1] /\ IsDelta(1)
  BY HeadRequest DEF IsDelta
<1>2. Working /\ executor
  BY <1>1 DEF Foreseen
<1>3. Head(c2s).base = taskRev
  <2>1. taskRev \in Nat /\ taskRev + 1 - 1 = taskRev
    BY DEF Typed, TypeOK
  <2>2. CASE sync.at = "upload"
    BY <1>1, <2>1, <2>2 DEF Foreseen, Bases
  <2>3. CASE sync.at # "upload"
    BY <1>1, <2>3 DEF Foreseen, Bases
  <2> QED BY <2>2, <2>3
<1>4. \A c \in Head(c2s).changes : c.sha = c.content
  BY <1>1 DEF Hashes, Honest
<1> QED BY <1>2, <1>3, <1>4 DEF Verdict

LEMMA ServedAsForeseen ==
  ASSUME Typed, Phases, Answers, Hashes, Predicted, Quiet, timeouts = 0, ServeDelta
  PROVE  Foreseen' /\ storeRev' = taskRev'
<1>1. Foreseen /\ storeRev = taskRev
  BY DEF Predicted
<1>2. /\ c2s # <<>> /\ Head(c2s).kind = "delta" /\ c2s' = Tail(c2s)
      /\ UNCHANGED <<machine, executor>>
  BY DEF ServeDelta
<1>3. Verdict(Head(c2s)) = "ok" /\ Working
  BY <1>1, <1>2, VerdictOk DEF Quiet
<1>4. /\ taskRev' = taskRev + 1 /\ storeRev' = taskRev + 1
      /\ s2c' = Append(s2c, Ack(Head(c2s).id, "ok", taskRev + 1))
  BY <1>1, <1>3, ReadRight DEF ServeDelta, Reply, Quiet, Manifest
<1>5. Good
  BY <1>1, <1>3, QuietIsGood
<1>6. \A i \in DOMAIN s2c' : s2c'[i].code = "ok"
  <2>1. s2c \in Seq(Acks)
    BY DEF Typed, TypeOK, Acks
  <2>2. Ack(Head(c2s).id, "ok", taskRev + 1).code = "ok"
    BY DEF Ack
  <2>3. /\ \A i \in DOMAIN s2c' : i \in DOMAIN s2c \/ i = Len(s2c')
        /\ \A i \in DOMAIN s2c : s2c'[i] = s2c[i]
        /\ s2c'[Len(s2c')] = Ack(Head(c2s).id, "ok", taskRev + 1)
    BY <1>4, <2>1
  <2> QED BY <1>1, <2>2, <2>3 DEF Foreseen
<1>7. /\ 1 \in DOMAIN c2s /\ c2s[1] = Head(c2s) /\ Len(c2s') = Len(c2s) - 1 /\ Len(c2s) \in Nat
      /\ DOMAIN c2s' = 1..Len(c2s')
      /\ \A i \in DOMAIN c2s' : i \in Nat /\ i + 1 \in DOMAIN c2s /\ c2s'[i] = c2s[i + 1]
      /\ taskRev \in Nat /\ sync' = sync
  BY <1>2, HeadRequest DEF Typed, TypeOK, machine
<1>8. Bases'
  <2>1. ASSUME sync.at = "upload"
        PROVE  /\ \A i \in DOMAIN c2s' : c2s'[i].base = taskRev' + i - 1
               /\ sync.next = taskRev' + Len(c2s')
    <3>1. sync.next = taskRev + Len(c2s) /\ \A i \in DOMAIN c2s : c2s[i].base = taskRev + i - 1
      BY <1>1, <2>1 DEF Foreseen, Bases
    <3>2. ASSUME NEW i \in DOMAIN c2s'
          PROVE  c2s'[i].base = taskRev' + i - 1
      <4>1. c2s'[i].base = taskRev + (i + 1) - 1 /\ i \in Nat
        BY <1>7, <3>1
      <4> QED BY <1>4, <1>7, <4>1
    <3>3. taskRev + Len(c2s) = taskRev' + Len(c2s')
      BY <1>4, <1>7
    <3> QED BY <3>1, <3>2, <3>3
  <2>2. ASSUME sync.at # "upload", NEW i \in DOMAIN c2s', c2s'[i].kind = "delta"
        PROVE  FALSE
    <3>1. IsDelta(1) /\ IsDelta(i + 1) /\ i + 1 # 1
      BY <1>2, <1>7, <2>2 DEF IsDelta
    <3> QED BY <1>5, <1>7, <2>2, <3>1, WireIsAwaited DEF Good
  <2> QED BY <1>7, <2>1, <2>2 DEF Bases, IsDelta
<1>9. Working' /\ executor' /\ sync'.failed = "no"
  BY <1>1, <1>2, <1>3 DEF Foreseen, Working, machine
<1> QED BY <1>4, <1>6, <1>8, <1>9 DEF Foreseen

(* An ack arrives.                                                            *)
LEMMA AcceptedAsForeseen ==
  ASSUME Typed, Typed', Phases, Phases', Answers, Answers', Revisions, Revisions', Foreseen,
         timeouts = 0, ReceiveAck
  PROVE  Foreseen'
<1> DEFINE ack == Head(s2c)
<1>1. /\ s2c # <<>> /\ s2c' = Tail(s2c) /\ UNCHANGED <<timeouts, server>>
      /\ (Accepted(ack) \/ Refused(ack) \/ Ignored(ack))
  BY DEF ReceiveAck
<1>2. /\ 1 \in DOMAIN s2c /\ ack = s2c[1]
      /\ \A i \in DOMAIN s2c' : i \in Nat /\ i + 1 \in DOMAIN s2c /\ s2c'[i] = s2c[i + 1]
  BY <1>1, HeadAck
<1>3. ack.code = "ok"
  BY <1>2 DEF Foreseen
<1> HIDE DEF ack
<1>4. \A i \in DOMAIN s2c' : s2c'[i].code = "ok"
  BY <1>2 DEF Foreseen
<1>5. sync \in Sync
  BY DEF Typed, TypeOK
<1>6. CASE Ignored(ack)
  <2>1. UNCHANGED <<state, sync, c2s, executor, taskRev>>
    BY <1>1, <1>6 DEF Ignored, server
  <2> QED BY <1>4, <2>1 DEF Foreseen, Bases, Working, IsDelta
<1>7. CASE Accepted(ack)
  <2>1. UNCHANGED <<state, c2s, executor, taskRev>>
    BY <1>1, <1>7 DEF Accepted, server
  <2>2. CASE sync.at = "meta"
    <3>1. sync'.at = "upload" /\ sync'.next = ack.rev /\ sync'.top = ack.rev /\ sync'.failed = "no"
      BY <1>5, <1>7, <2>2 DEF Accepted, Sync, Foreseen
    <3>2. Working /\ Good' /\ awaited' = {}
      <4>1. state = "syncing" /\ awaited \subseteq {batches}
        BY <2>2 DEF Phases, Stages, OneAwaited
      <4> QED BY <1>1, <1>4, <1>7, <2>1, <3>1, <4>1 DEF Good, Alive, Going, Working, Accepted
    <3>3. s2c' = <<>> /\ \A i \in DOMAIN c2s' : c2s'[i].kind # "delta"
      <4>1. c2s' \in Seq(Request) /\ s2c' \in Seq(Acks')
        BY DEF Typed, TypeOK, MessagesOK, Acks
      <4>2. DOMAIN s2c' = {} /\ \A i \in DOMAIN c2s' : c2s'[i].kind # "delta"
        BY <3>2 DEF Answers, Good, IsDelta
      <4> QED BY <4>1, <4>2
    <3>4. taskRev' = sync'.next
      BY <3>1, <3>2, <3>3 DEF Revisions, Known
    <3>5. c2s' = <<>>
      <4>1. \A i \in DOMAIN c2s' : c2s'[i].kind = "delta"
        BY <3>1 DEF Phases, Sent, IsDelta
      <4>2. DOMAIN c2s' = {} /\ c2s' \in Seq(Request)
        BY <3>3, <4>1 DEF Typed, MessagesOK
      <4> QED BY <4>2
    <3>6. Bases'
      <4>1. sync'.next \in Nat /\ Len(c2s') = 0 /\ DOMAIN c2s' = {}
        BY <3>5 DEF Typed, TypeOK, Sync
      <4> QED BY <3>1, <3>4, <4>1 DEF Bases
    <3> QED BY <1>4, <2>1, <3>1, <3>2, <3>6 DEF Foreseen, Good, Alive, Going, Working
  <2>3. CASE sync.at = "upload"
    <3>1. sync'.at = "upload" /\ sync'.next = sync.next /\ sync'.failed = "no"
      BY <1>5, <1>7, <2>3 DEF Accepted, Sync, Foreseen
    <3> QED BY <1>4, <2>1, <2>3, <3>1 DEF Foreseen, Bases, Working, IsDelta
  <2>4. CASE sync.at \notin {"meta", "upload"}
    <3>1. sync'.at # "upload" /\ sync'.failed = "no"
      <4>1. CASE sync.at = "pushed"
        BY <1>5, <1>7, <4>1 DEF Accepted, Sync, Foreseen
      <4>2. CASE sync.at # "pushed"
        BY <1>7, <2>4, <4>2 DEF Accepted, Foreseen
      <4> QED BY <4>1, <4>2
    <3> QED BY <1>4, <2>1, <2>4, <3>1 DEF Foreseen, Bases, Working, IsDelta
  <2> QED BY <2>2, <2>3, <2>4
<1> QED BY <1>1, <1>3, <1>6, <1>7 DEF Refused, TokenGone

LEMMA ClientStepPredicted ==
  ASSUME Typed, Typed', Phases, Phases', Answers, Answers', Revisions, Revisions',
         Predicted, Quiet, timeouts = 0, Client
  PROVE  Foreseen' /\ UNCHANGED <<taskRev, storeRev>>
<1>0. sync \in Sync /\ rev \in Nat /\ buffered \in SUBSET Change /\ pending \in SUBSET Change
  BY DEF Typed, TypeOK
<1>1. Foreseen
  BY DEF Predicted
<1>2. UNCHANGED <<timeouts, taskRev, storeRev, executor>>
  BY DEF Client, WatcherIndexes, WatcherArms, FlushTimer, Flush, Walk, SendMeta, UploadCrashes,
         UploadFails, Uploaded, PushBuffered, SendComplete, StartWatching, Hash, HashFails,
         SendUpload, Drain, ReceiveAck, machine, server
<1> SUFFICES Foreseen'
  BY <1>2
<1>a. ASSUME UNCHANGED <<c2s, s2c>>, Working' <=> Working, sync'.failed = sync.failed,
             sync'.at = "upload" <=> sync.at = "upload",
             sync.at = "upload" => sync'.next = sync.next
      PROVE  Foreseen'
  BY <1>1, <1>2, <1>a DEF Foreseen, Bases, IsDelta
<1>3. CASE WatcherIndexes \/ FlushTimer
  BY <1>3, <1>a DEF WatcherIndexes, FlushTimer, machine, Working
<1>4. CASE WatcherArms
  <2>1. sync.at # "upload"
    BY <1>4 DEF WatcherArms, Phases, Stages
  <2>2. sync'.at = "walk" /\ sync'.failed = sync.failed
    BY <1>0, <1>4 DEF WatcherArms, Sync
  <2> QED BY <1>4, <1>a, <2>1, <2>2 DEF WatcherArms, Working
<1>5. CASE Flush
  BY <1>5, <1>a, FlushAdvances DEF Flush, Working
<1>6. CASE Walk
  <2>1. sync.at = "walk" /\ sync'.at = "hash" /\ sync'.failed = sync.failed
    BY <1>0, <1>6 DEF Walk, Sync
  <2> QED BY <1>6, <1>a, <2>1 DEF Walk, Working
<1>7. CASE SendMeta
  <2>1. sync.at = "hash" /\ Working /\ Working' /\ s2c' = s2c
    BY <1>7 DEF SendMeta, Phases, Stages, Working
  <2>2. taskRev = 0 /\ rev = 0 /\ sync.next = 0 /\ c2s = <<>> /\ awaited = {}
    BY <2>1 DEF Phases, Unsent, OneAwaited
  <2>3. Bases'
    <3>1. CASE sync.deletes = {}
      <4>1. sync'.at = "upload" /\ sync'.next = 0 /\ c2s' = <<>>
        BY <1>0, <1>7, <2>2, <3>1 DEF SendMeta, Sync
      <4>2. DOMAIN c2s' = {} /\ taskRev' + Len(c2s') = 0
        BY <1>2, <2>2, <4>1
      <4> QED BY <4>1, <4>2 DEF Bases
    <3>2. CASE sync.deletes # {}
      <4>1. Send(rev, Deleted(sync.deletes)) /\ Deleted(sync.deletes) \in SUBSET Change
        BY <1>0, <1>7, <2>2, <3>2, FoundAreChanges DEF SendMeta, Sync
      <4>2. sync'.at = "meta"
        BY <1>0, <1>7, <3>2 DEF SendMeta, Sync
      <4> QED BY <1>1, <1>2, <2>1, <2>2, <4>1, <4>2, SentOnKnown
    <3> QED BY <3>1, <3>2
  <2>4. sync'.failed = "no"
    BY <1>0, <1>1, <1>7 DEF SendMeta, Sync, Foreseen
  <2> QED BY <1>1, <1>2, <2>1, <2>3, <2>4 DEF Foreseen
<1>8. CASE UploadCrashes \/ UploadFails
  BY <1>1, <1>8 DEF UploadCrashes, UploadFails, Foreseen
<1>9. CASE Uploaded
  <2>1. /\ sync.at = "upload" /\ awaited = {} /\ sync'.at \in {"push", "flush"}
        /\ sync'.failed = "no" /\ UNCHANGED <<state, c2s, s2c>>
    BY <1>0, <1>9 DEF Uploaded, Sync
  <2>2. Working /\ Working'
    BY <2>1 DEF Phases, Stages, Working
  <2>3. \A i \in DOMAIN c2s : ~IsDelta(i)
    BY <1>1, <2>1, <2>2, WireIsAwaited, QuietIsGood DEF Good
  <2>4. Bases'
    BY <2>1, <2>3 DEF Bases, IsDelta
  <2> QED BY <1>1, <1>2, <2>1, <2>2, <2>4 DEF Foreseen
<1>10. CASE PushBuffered
  <2>1. /\ sync.at = "push" /\ sync'.at \in {"complete", "pushed"} /\ sync'.failed = sync.failed
        /\ UNCHANGED <<state, s2c>>
    BY <1>0, <1>10 DEF PushBuffered, Sync
  <2>2. Working /\ Working' /\ awaited = {}
    BY <2>1 DEF Phases, Stages, OneAwaited, Working
  <2>3. CASE buffered = {}
    BY <1>10, <1>a, <2>1, <2>2, <2>3 DEF PushBuffered
  <2>4. CASE buffered # {}
    <3>1. Send(rev, buffered)
      BY <1>10, <2>4 DEF PushBuffered
    <3>2. Bases'
      BY <1>0, <1>1, <1>2, <2>1, <2>2, <3>1, SentOnKnown
    <3> QED BY <1>1, <1>2, <2>1, <2>2, <3>2 DEF Foreseen
  <2> QED BY <2>3, <2>4
<1>11. CASE SendComplete
  <2>1. /\ sync.at = "complete" /\ sync'.at = "sent" /\ sync'.failed = sync.failed
        /\ UNCHANGED <<state, s2c>> /\ c2s' = Append(c2s, [kind |-> "complete", base |-> rev])
    BY <1>0, <1>11 DEF SendComplete, Sync
  <2>2. Working /\ Working'
    BY <2>1 DEF Phases, Stages, Working
  <2>3. [kind |-> "complete", base |-> rev] \in Request /\ c2s \in Seq(Request)
    BY <1>0 DEF Typed, MessagesOK, Request
  <2>4. \A i \in DOMAIN c2s' : c2s'[i].kind = "delta" => i \in DOMAIN c2s /\ c2s'[i] = c2s[i]
    BY <2>1, <2>3
  <2>5. Bases'
    BY <1>1, <1>2, <2>1, <2>4 DEF Foreseen, Bases, IsDelta
  <2> QED BY <1>1, <1>2, <2>1, <2>2, <2>5 DEF Foreseen
<1>12. CASE StartWatching
  <2>1. sync.at = "sent" /\ state = "syncing" /\ sync.failed = "no"
    BY <1>12 DEF StartWatching, Phases, Stages
  <2>2. sync'.at = "over" /\ sync'.failed = "no" /\ state' = "watching" /\ UNCHANGED <<c2s, s2c>>
    BY <1>12 DEF StartWatching, NewSync
  <2> QED BY <1>a, <2>1, <2>2 DEF Working
<1>13. CASE \E p \in Paths : Hash(p) \/ HashFails(p)
  <2>1. PICK p \in Paths : Hash(p) \/ HashFails(p)
    BY <1>13
  <2>2. CASE Hash(p)
    <3>1. sync.at = "hash" /\ sync'.at = "hash" /\ sync'.failed = sync.failed
      BY <1>0, <2>2 DEF Hash, Sync
    <3> QED BY <1>a, <2>2, <3>1 DEF Hash, Working
  <2>3. CASE HashFails(p)
    <3>1. s2c' = s2c /\ DOMAIN c2s = {}
      BY <2>3 DEF HashFails, Phases, Unsent
    <3>2. PICK message \in Silence : GiveUp(message)
      BY <2>3 DEF HashFails, PassiveWithFault, Silence
    <3>3. /\ sync'.at = "over" /\ sync'.failed = "no" /\ ~Working'
          /\ \A i \in DOMAIN c2s' : c2s'[i].kind \in {"fault", "closed"}
      BY <3>1, <3>2, GiveUpTyped DEF Working
    <3> QED BY <1>1, <3>1, <3>3 DEF Foreseen, Bases, IsDelta
  <2> QED BY <2>1, <2>2, <2>3
<1>14. CASE \E c \in sync.plan : SendUpload(c)
  <2>1. PICK c \in sync.plan : SendUpload(c)
    BY <1>14
  <2>2. /\ sync.at = "upload" /\ sync'.at = "upload" /\ sync'.failed = sync.failed
        /\ sync'.next = sync.next + 1 /\ UNCHANGED <<state, s2c>>
    BY <1>0, <2>1 DEF SendUpload, Sync
  <2>3. Send(sync.next, {c}) /\ {c} \in SUBSET Change /\ sync.next \in Nat
    BY <1>0, <2>1 DEF SendUpload, Sync
  <2>4. /\ Len(c2s') = Len(c2s) + 1
        /\ \A i \in DOMAIN c2s' : i \in DOMAIN c2s \/ i = Len(c2s')
        /\ \A i \in DOMAIN c2s : c2s'[i] = c2s[i]
        /\ c2s'[Len(c2s')] = Delta(sync.next, {c})
    BY <2>3, SendTyped
  <2>5. sync.next = taskRev + Len(c2s) /\ Len(c2s) \in Nat /\ taskRev \in Nat
    BY <1>1, <2>2 DEF Foreseen, Bases, Typed, TypeOK, MessagesOK
  <2>6. Delta(sync.next, {c}).base = taskRev + Len(c2s') - 1
    <3>1. Delta(sync.next, {c}).base = sync.next
      BY DEF Delta
    <3> QED BY <2>4, <2>5, <3>1
  <2>7. \A i \in DOMAIN c2s' : c2s'[i].base = taskRev + i - 1
    BY <1>1, <2>2, <2>4, <2>6 DEF Foreseen, Bases
  <2>8. sync'.next = taskRev + Len(c2s')
    BY <2>2, <2>4, <2>5
  <2>9. Bases'
    BY <1>2, <2>2, <2>7, <2>8 DEF Bases
  <2> QED BY <1>1, <1>2, <2>2, <2>9 DEF Foreseen, Working, Phases, Stages
<1>15. CASE Drain
  <2>1. Send(rev, pending) /\ awaited = {} /\ state = "watching" /\ UNCHANGED <<sync, state, s2c>>
    BY <1>15 DEF Drain
  <2>2. Working /\ Working' /\ sync.at # "upload"
    BY <2>1 DEF Phases, Stages, Working
  <2>3. Bases'
    BY <1>0, <1>1, <1>2, <2>1, <2>2, SentOnKnown
  <2> QED BY <1>1, <1>2, <2>1, <2>2, <2>3 DEF Foreseen
<1>16. CASE ReceiveAck
  BY <1>1, <1>16, AcceptedAsForeseen
<1> QED BY <1>2, <1>3, <1>4, <1>5, <1>6, <1>7, <1>8, <1>9, <1>10, <1>11, <1>12, <1>13, <1>14,
           <1>15, <1>16 DEF Client

LEMMA StepPredicted ==
  ASSUME Typed, Typed', Phases, Phases', Answers, Answers', Revisions, Revisions', Reached,
         Hashes, Predicted, [Next]_vars
  PROVE  Predicted'
<1> SUFFICES ASSUME Quiet PROVE storeRev' = taskRev' /\ (timeouts' = 0 => Foreseen')
  BY DEF Predicted, Quiet
<1>1. storeRev = taskRev /\ (timeouts = 0 => Foreseen) /\ timeouts \in Nat /\ taskRev \in Nat
  BY DEF Predicted, Typed, TypeOK
<1>2. timeouts' \in {timeouts, timeouts + 1}
  BY DEF Next, Client, Server, WatcherIndexes, WatcherArms, FlushTimer, Flush, Walk, SendMeta,
         UploadCrashes, UploadFails, Uploaded, PushBuffered, SendComplete, StartWatching, Hash,
         HashFails, SendUpload, Drain, ReceiveAck, ServeDelta, ServeComplete, ServeFault, Edit,
         Remove, Written, WatcherFails, Sweep, OtherWriter, AckTimeout, vars, machine
<1>3. CASE Client
  <2>1. UNCHANGED <<taskRev, storeRev>>
    BY <1>3 DEF Client, WatcherIndexes, WatcherArms, FlushTimer, Flush, Walk, SendMeta,
         UploadCrashes, UploadFails, Uploaded, PushBuffered, SendComplete, StartWatching, Hash,
         HashFails, SendUpload, Drain, ReceiveAck, server
  <2>2. timeouts' = 0 => timeouts = 0
    BY <1>1, <1>2
  <2> QED BY <1>1, <1>3, <2>1, <2>2, ClientStepPredicted
<1>4. CASE ServeDelta
  <2>1. timeouts' = timeouts
    BY <1>4 DEF ServeDelta, machine
  <2>2. storeRev' = taskRev'
    BY <1>1, <1>4 DEF ServeDelta
  <2> QED BY <1>4, <2>1, <2>2, ServedAsForeseen
<1>5. CASE ServeComplete \/ ServeFault
  <2>1. /\ c2s # <<>> /\ c2s' = Tail(c2s) /\ Head(c2s).kind # "delta"
        /\ UNCHANGED <<machine, s2c, taskRev, storeRev>>
        /\ ServeFault => Head(c2s).kind \in {"fault", "closed"}
        /\ ServeComplete => Head(c2s).kind = "complete"
        /\ ServeComplete /\ ~(taskRev < Head(c2s).base) => executor' = executor
    <3>1. \A manifest \in ManifestsRead : manifest.rev = storeRev
      BY ReadRight DEF Manifest, Quiet
    <3> QED BY <1>5, <3>1 DEF ServeComplete, ServeFault
  <2>2. /\ 1 \in DOMAIN c2s /\ Head(c2s) = c2s[1]
        /\ \A i \in DOMAIN c2s' : i + 1 \in DOMAIN c2s /\ c2s'[i] = c2s[i + 1]
    BY <2>1, HeadRequest
  <2>3. ASSUME timeouts = 0, Working
        PROVE  sync.at # "upload" /\ executor' = executor
    <3>1. ServeComplete /\ sync.at # "upload"
      BY <1>5, <2>1, <2>2, <2>3 DEF Phases, Sent, IsDelta
    <3>2. Good
      BY <1>1, <2>3, QuietIsGood
    <3>3. s2c = <<>> /\ Head(c2s).base = Known
      BY <2>1, <2>2, <3>1, <3>2 DEF Reached, IsComplete
    <3>4. taskRev = Known
      BY <3>2, <3>3 DEF Revisions
    <3> QED BY <1>1, <2>1, <3>1, <3>3, <3>4
  <2>5. ~Working => sync.at # "upload"
    BY DEF Phases, Stages, Working
  <2>6. UNCHANGED <<state, sync, s2c, taskRev>>
    BY <2>1 DEF machine
  <2>4. timeouts = 0 => Foreseen'
    <3> SUFFICES ASSUME timeouts = 0 PROVE Foreseen'
      OBVIOUS
    <3>1. Bases'
      BY <1>1, <2>2, <2>3, <2>5, <2>6 DEF Foreseen, Bases, IsDelta
    <3>2. Working' => executor'
      BY <1>1, <2>3, <2>6 DEF Foreseen, Working
    <3>3. ~Working' => \A i \in DOMAIN c2s' : c2s'[i].kind # "delta"
      BY <1>1, <2>2, <2>6 DEF Foreseen, Working, IsDelta
    <3> QED BY <1>1, <2>6, <3>1, <3>2, <3>3 DEF Foreseen, IsDelta
  <2> QED BY <1>1, <2>1, <2>4 DEF machine
<1>6. CASE WatcherFails
  BY <1>6 DEF WatcherFails, Quiet
<1>7. CASE Sweep
  <2>1. ~Working
    BY <1>7 DEF Sweep, Quiet, Working
  <2> QED BY <1>1, <1>7, <2>1 DEF Sweep, Foreseen, Bases, Working, IsDelta, machine
<1>8. CASE OtherWriter
  BY <1>1, <1>8 DEF OtherWriter, Quiet
<1>9. CASE \E id \in awaited : AckTimeout(id)
  BY <1>1, <1>9 DEF AckTimeout, server
<1>10. CASE UNCHANGED vars \/ \E p \in Paths : Edit(p) \/ Remove(p)
  <2>1. UNCHANGED <<machine, c2s, s2c, server>>
    BY <1>10 DEF Edit, Remove, Written, vars
  <2> QED BY <1>1, <2>1 DEF Foreseen, Bases, Working, IsDelta, machine, server
<1> QED BY <1>3, <1>4, <1>5, <1>6, <1>7, <1>8, <1>9, <1>10 DEF Next, Server

LEMMA PredictedAlways ==
  ASSUME ~Faults
  PROVE  Spec => []Predicted
<1>1. /\ Typed /\ Typed' /\ Phases /\ Phases' /\ Answers /\ Answers' /\ Revisions /\ Revisions'
      /\ Reached /\ Hashes /\ Predicted /\ [Next]_vars
      => Predicted'
  BY StepPredicted
<1>2. Spec => [](Typed /\ Phases /\ Answers /\ Revisions /\ Reached /\ Hashes)
  BY TypedAlways, PhasesAlways, AnswersAlways, RevisionsAlways, ReachedAlways, HashesAlways, PTL
<1> QED BY <1>1, <1>2, InitPredicted, PTL DEF Spec

\* When nothing fails and the scan cache knows no hash, a client that writes
\* the manifest alone and gets its acks in time is never refused: the
\* revisions pushInitialDeltaBatches predicts for the batches it does not wait
\* for are the ones the manager gives them, for any number of files in flight.
THEOREM SpecNeverRefused ==
  ASSUME ~Faults, Hits = {}
  PROVE  Spec => []NeverRefused
<1>1. Predicted => NeverRefused
  BY DEF Predicted, Quiet, Foreseen, NeverRefused
<1> QED BY <1>1, PredictedAlways, PTL

-----------------------------------------------------------------------------
(* Where the last word on a file is.                                          *)

(* What a flush will find, the file or its absence from the index, or what    *)
(* the watcher missed and will not speak of any more.                         *)
Hot(p) == \/ p \in missed
          \/ /\ p \in dirty \/ \E i \in DOMAIN chain : p \in chain[i]
             /\ local[p] # 0 \/ p \in index

(* The places a change passes through, from the manifest back to the disk:    *)
(* what comes after each of them for one path.                                *)
AfterBuffer(p) == Named(pending, p) \/ Hot(p)
AfterPlan(p) == Named(buffered, p) \/ AfterBuffer(p)
Listed(p) == sync.at = "hash" /\ p \in sync.todo \cup sync.deletes
AfterWire(p) == Listed(p) \/ Named(sync.plan, p) \/ AfterPlan(p)
After(k, p) == \/ \E j \in DOMAIN c2s : j > k /\ IsDelta(j) /\ Named(c2s[j].changes, p)
               \/ AfterWire(p)

(* In each place a change tells the truth about the disk, or a later one is   *)
(* to follow: the last word is always true.                                   *)
PendingTrue == \A c \in pending : c.content = local[c.path] \/ Hot(c.path)
BufferTrue == state = "syncing" =>
    \A c \in buffered : c.content = local[c.path] \/ AfterBuffer(c.path)
PlanTrue == \A c \in sync.plan : c.content = local[c.path] \/ AfterPlan(c.path)
DeletesTrue == sync.at = "hash" => \A p \in sync.deletes : local[p] = 0 \/ AfterPlan(p)
WireTrue == \A i \in DOMAIN c2s : IsDelta(i) =>
    \A c \in c2s[i].changes : c.content = local[c.path] \/ After(i, c.path)
EntriesTrue == sync.at \notin {"start", "walk"} =>
    \A p \in Paths : entries[p] = NoEntry \/ entries[p].content = local[p] \/ After(0, p)

LastWord == Heard =>
    PendingTrue /\ BufferTrue /\ PlanTrue /\ DeletesTrue /\ WireTrue /\ EntriesTrue

(* The watcher knows the files it reported, has heard of all it handles, and  *)
(* reports none before it runs.                                               *)
Knows ==
    /\ sync.at = "start" => chain = <<>> /\ dirty = {} /\ buffered = {} /\ missed = {}
    /\ \A c \in pending : c.content # 0 => c.path \in index
    /\ state = "syncing" => \A c \in buffered : c.content # 0 => c.path \in index
    /\ dirty \subseteq heard /\ \A i \in DOMAIN chain : chain[i] \subseteq heard
    /\ state = "syncing" => \A c \in buffered : c.path \in heard

(* A refusal is not ignored: an ack that nobody waits for any more says "ok".  *)
(* The code has no such guarantee: it drops a live batch whose ack is late.    *)
Heeded == ReceiveAck /\ Ignored(Head(s2c)) => Head(s2c).code = "ok"

(* A file that disappears behind the walk was in the watcher's index.  The    *)
(* code has no such guarantee: a file that was created after the watcher made *)
(* its index and disappears again before its first flush leaves its entry.    *)
Removed == \A p \in Paths :
    local[p] # 0 /\ local'[p] = 0 /\ sync.at \notin {"start", "walk"} => p \in index

LEMMA FoundIsTrue ==
  ASSUME Typed, NEW paths \in SUBSET Paths, NEW c \in Found(paths)
  PROVE  /\ c \in Change /\ c.path \in paths /\ c.content = local[c.path]
         /\ c.content # 0 => c.path \in Present
         /\ c.content = 0 => c.path \notin Present
<1>1. c \in Change
  BY FoundAreChanges
<1>2. CASE c \in Upserted(paths)
  BY <1>1, <1>2 DEF Upserted, Present
<1>3. CASE c \in Deleted((paths \ Present) \cap index)
  BY <1>1, <1>3 DEF Deleted, Present
<1> QED BY <1>2, <1>3 DEF Found

LEMMA FlushKeepsHot ==
  ASSUME Typed, Flush, NEW unread \in SUBSET (Head(chain) \cap Present),
         missed' = missed \cup unread, NEW p \in Paths, Hot(p)
  PROVE  Hot(p)' \/ Named(Found(Head(chain) \ unread), p)
<1> DEFINE paths == Head(chain)
<1>1. /\ chain # <<>> /\ chain \in Seq(SUBSET Paths) /\ chain' = Tail(chain)
      /\ UNCHANGED <<local, dirty>>
      /\ index' = (index \ paths) \cup (paths \cap Present)
  BY DEF Flush, Typed, TypeOK, disk
<1>2. paths = chain[1] /\ \A i \in DOMAIN chain : i # 1 => i - 1 \in DOMAIN chain' /\ chain'[i - 1] = chain[i]
  BY <1>1
<1>3. unread \subseteq paths \cap Present
  OBVIOUS
<1> HIDE DEF paths
<1>4. CASE p \in missed'
  BY <1>4 DEF Hot
<1>5. CASE p \in paths /\ p \notin missed'
  <2>1. p \in paths \ unread /\ (local[p] # 0 \/ p \in index)
    BY <1>5 DEF Hot
  <2>2. CASE local[p] # 0
    <3>1. [path |-> p, stat |-> local[p], content |-> local[p], sha |-> local[p]]
            \in Found(paths \ unread)
      BY <2>1, <2>2 DEF Found, Upserted, Present
    <3> QED BY <3>1 DEF Named, paths
  <2>3. CASE local[p] = 0
    <3>1. p \in index /\ p \notin Present
      BY <2>1, <2>3 DEF Present
    <3>2. [path |-> p, stat |-> 0, content |-> 0, sha |-> 0] \in Found(paths \ unread)
      BY <2>1, <3>1 DEF Found, Deleted
    <3> QED BY <3>2 DEF Named, paths
  <2> QED BY <2>2, <2>3
<1>6. CASE p \notin paths /\ p \notin missed'
  <2>1. local'[p] # 0 \/ p \in index'
    BY <1>1, <1>6 DEF Hot
  <2>2. p \in dirty' \/ \E i \in DOMAIN chain' : p \in chain'[i]
    <3>1. CASE p \in dirty
      BY <1>1, <3>1
    <3>2. CASE \E i \in DOMAIN chain : p \in chain[i]
      BY <1>2, <1>6, <3>2
    <3> QED BY <1>6, <3>1, <3>2 DEF Hot
  <2> QED BY <2>1, <2>2 DEF Hot
<1> QED BY <1>4, <1>5, <1>6

(* A set that is queued to be flushed stays hot.                              *)
LEMMA QueuedStaysHot ==
  ASSUME Typed, chain' = Append(chain, dirty), dirty' = {}, UNCHANGED <<local, index, missed>>,
         NEW p \in Paths, Hot(p)
  PROVE  Hot(p)'
<1>1. chain \in Seq(SUBSET Paths) /\ dirty \in SUBSET Paths
  BY DEF Typed, TypeOK
<1>2. /\ Len(chain') \in DOMAIN chain' /\ chain'[Len(chain')] = dirty
      /\ \A i \in DOMAIN chain : i \in DOMAIN chain' /\ chain'[i] = chain[i]
  BY <1>1
<1> QED BY <1>2 DEF Hot

LEMMA InitKnows == Init => Knows
  BY DEF Init, Knows

LEMMA StepKnows ==
  ASSUME Typed, Phases, Knows, [Next]_vars
  PROVE  Knows'
<1>0. sync \in Sync
  BY DEF Typed, TypeOK
<1>a. ASSUME sync'.at = "start" => sync.at = "start" /\ UNCHANGED <<chain, dirty, missed>>,
             buffered' \in {buffered, {}}, pending' \in {pending, {}}, index' = index,
             state' = "syncing" => state = "syncing",
             heard \subseteq heard', dirty' \subseteq heard',
             \A i \in DOMAIN chain' : chain'[i] \subseteq heard'
      PROVE  Knows'
  BY <1>a DEF Knows
<1>c. ASSUME UNCHANGED <<heard, dirty, chain>>
      PROVE  /\ heard \subseteq heard' /\ dirty' \subseteq heard'
             /\ \A i \in DOMAIN chain' : chain'[i] \subseteq heard'
  BY <1>c DEF Knows
<1>d. ASSUME UNCHANGED heard, chain' = Append(chain, dirty), dirty' = {}
      PROVE  /\ heard \subseteq heard' /\ dirty' \subseteq heard'
             /\ \A i \in DOMAIN chain' : chain'[i] \subseteq heard'
  <2>1. chain \in Seq(SUBSET Paths) /\ dirty \in SUBSET Paths
    BY DEF Typed, TypeOK
  <2>2. \A i \in DOMAIN chain' : chain'[i] = dirty \/ (i \in DOMAIN chain /\ chain'[i] = chain[i])
    BY <1>d, <2>1
  <2> QED BY <1>d, <2>2 DEF Knows
<1>b. ASSUME Passive \/ PassiveWithFault PROVE Knows'
  <2>1. PICK message \in Silence : GiveUp(message)
    BY <1>b DEF Passive, PassiveWithFault, Silence
  <2>2. sync'.at = "over" /\ buffered' = {} /\ pending' = {}
    BY <2>1, GiveUpTyped DEF GiveUp
  <2>3. dirty' = {} /\ chain' = <<>>
    BY <2>1 DEF GiveUp
  <2> QED BY <2>2, <2>3 DEF Knows
<1>1. CASE WatcherIndexes
  <2>1. sync.at = "start" /\ state = "syncing" /\ pending = {} /\ buffered = {}
    BY <1>1 DEF WatcherIndexes, Knows, Phases, Stages
  <2> QED BY <1>1, <2>1 DEF WatcherIndexes, Knows, machine
<1>2. CASE WatcherArms
  <2>1. sync'.at = "walk"
    BY <1>0, <1>2 DEF WatcherArms, Sync
  <2> QED BY <1>2, <1>a, <1>c, <2>1 DEF WatcherArms
<1>3. CASE FlushTimer
  <2>1. sync.at # "start"
    BY <1>3 DEF FlushTimer, Phases, Stages
  <2> QED BY <1>3, <1>a, <1>d, <2>1 DEF FlushTimer, machine
<1>4. CASE Flush
  <2> DEFINE paths == Head(chain)
  <2>0. PICK unread \in SUBSET (paths \cap Present) :
           IF state = "syncing"
           THEN buffered' = Overlay(buffered, Found(paths \ unread)) /\ UNCHANGED pending
           ELSE pending' = Overlay(pending, Found(paths \ unread)) /\ UNCHANGED buffered
    BY <1>4 DEF Flush
  <2> DEFINE found == Found(paths \ unread)
  <2>1. /\ chain # <<>> /\ paths \in SUBSET Paths /\ paths \ unread \in SUBSET Paths
        /\ index' = (index \ paths) \cup (paths \cap Present)
        /\ chain' = Tail(chain) /\ chain \in Seq(SUBSET Paths) /\ UNCHANGED <<heard, dirty>>
    BY <1>4 DEF Flush, Typed, TypeOK
  <2>2. \A c \in found : (c.content # 0 => c.path \in index') /\ c.path \in paths
    BY <2>1, FoundIsTrue
  <2>3. ASSUME NEW older \in SUBSET Change, \A c \in older : c.content # 0 => c.path \in index,
               NEW c \in Overlay(older, found), c.content # 0
        PROVE  c.path \in index'
    <3>1. CASE c \in found
      BY <2>2, <2>3, <3>1
    <3>2. CASE c \notin found
      <4>1. c \in older /\ (\A d \in found : d.path # c.path) /\ c.path \in index
        BY <2>3, <3>2 DEF Overlay
      <4>2. c.path \in paths => c.path \in Present
        <5>1. SUFFICES ASSUME c.path \in paths, c.path \notin Present PROVE FALSE
          OBVIOUS
        <5>2. [path |-> c.path, stat |-> 0, content |-> 0, sha |-> 0] \in found
          BY <4>1, <5>1 DEF Found, Deleted
        <5> QED BY <4>1, <5>2
      <4> QED BY <2>1, <4>1, <4>2
    <3> QED BY <3>1, <3>2
  <2>a. /\ dirty' \subseteq heard' /\ \A i \in DOMAIN chain' : chain'[i] \subseteq heard'
        /\ \A c \in found : c.path \in heard'
    <3>1. /\ paths = chain[1] /\ 1 \in DOMAIN chain
          /\ \A i \in DOMAIN chain' : i + 1 \in DOMAIN chain /\ chain'[i] = chain[i + 1]
      BY <2>1
    <3> HIDE DEF found, paths
    <3> QED BY <2>1, <2>2, <3>1 DEF Knows
  <2> HIDE DEF found, paths
  <2>4. sync.at # "start" /\ sync'.at # "start"
    <3>1. sync.at # "start"
      BY <2>1 DEF Knows
    <3> QED BY <1>4, <3>1, FlushAdvances
  <2>5. buffered \in SUBSET Change /\ pending \in SUBSET Change
    BY DEF Typed, TypeOK
  <2>6. CASE state = "syncing"
    <3>1. buffered' = Overlay(buffered, found) /\ pending' = pending
      BY <2>0, <2>6 DEF found
    <3>2. \A c \in buffered' : c.content # 0 => c.path \in index'
      BY <2>3, <2>5, <2>6, <3>1 DEF Knows
    <3>3. pending' = {}
      BY <2>6, <3>1 DEF Phases, Stages
    <3>4. \A c \in buffered' : c.path \in heard'
      BY <2>1, <2>6, <2>a, <3>1 DEF Knows, Overlay
    <3> QED BY <2>4, <2>a, <3>2, <3>3, <3>4 DEF Knows
  <2>7. CASE state # "syncing"
    <3>1. pending' = Overlay(pending, found) /\ state' # "syncing"
      BY <1>4, <2>0, <2>7 DEF Flush, found
    <3>2. \A c \in pending' : c.content # 0 => c.path \in index'
      BY <2>3, <2>5, <3>1 DEF Knows
    <3> QED BY <2>4, <2>a, <3>1, <3>2 DEF Knows
  <2> QED BY <2>6, <2>7
<1>5. CASE Walk
  <2>1. sync'.at = "hash"
    BY <1>0, <1>5 DEF Walk, Sync
  <2> QED BY <1>5, <1>a, <1>c, <2>1 DEF Walk, watcher
<1>6. CASE SendMeta
  <2>1. sync'.at \in {"upload", "meta"}
    BY <1>0, <1>6 DEF SendMeta, Sync
  <2> QED BY <1>6, <1>a, <1>c, <2>1 DEF SendMeta, watcher
<1>7. CASE UploadCrashes \/ UploadFails \/ WatcherFails
  BY <1>7, <1>b DEF UploadCrashes, UploadFails, WatcherFails
<1>8. CASE Uploaded
  <2>1. sync'.at \in {"push", "flush"}
    BY <1>0, <1>8 DEF Uploaded, Sync
  <2> QED BY <1>8, <1>a, <1>c, <1>d, <2>1 DEF Uploaded
<1>9. CASE PushBuffered
  <2>1. sync'.at \in {"complete", "pushed"}
    BY <1>0, <1>9 DEF PushBuffered, Sync
  <2> QED BY <1>9, <1>a, <1>c, <2>1 DEF PushBuffered, watcher
<1>10. CASE SendComplete
  <2>1. sync'.at = "sent"
    BY <1>0, <1>10 DEF SendComplete, Sync
  <2> QED BY <1>10, <1>a, <1>c, <2>1 DEF SendComplete, watcher
<1>11. CASE StartWatching
  <2>1. sync'.at = "over" /\ state' = "watching"
    BY <1>11 DEF StartWatching, NewSync
  <2> QED BY <1>11, <1>a, <1>c, <2>1 DEF StartWatching, watcher
<1>12. CASE \E p \in Paths : Hash(p) \/ HashFails(p)
  <2>1. PICK p \in Paths : Hash(p) \/ HashFails(p)
    BY <1>12
  <2>2. CASE Hash(p)
    <3>1. sync'.at = "hash"
      BY <1>0, <2>2 DEF Hash, Sync
    <3> QED BY <1>a, <1>c, <2>2, <3>1 DEF Hash, watcher
  <2>3. CASE HashFails(p)
    BY <1>b, <2>3 DEF HashFails
  <2> QED BY <2>1, <2>2, <2>3
<1>13. CASE \E c \in sync.plan : SendUpload(c)
  <2>1. PICK c \in sync.plan : SendUpload(c)
    BY <1>13
  <2>2. sync'.at = "upload"
    BY <1>0, <2>1 DEF SendUpload, Sync
  <2> QED BY <1>a, <1>c, <2>1, <2>2 DEF SendUpload, watcher
<1>14. CASE Drain
  BY <1>14, <1>a, <1>c DEF Drain, watcher
<1>15. CASE ReceiveAck
  <2> DEFINE ack == Head(s2c)
  <2>1. s2c # <<>> /\ (Accepted(ack) \/ Refused(ack) \/ Ignored(ack))
    BY <1>15 DEF ReceiveAck
  <2> HIDE DEF ack
  <2>2. sync.at # "start"
    BY <2>1 DEF Phases, Unsent
  <2>3. CASE Passive
    BY <1>b, <2>3
  <2>4. CASE ~Passive
    <3>1. UNCHANGED <<watcher, state, buffered, pending>>
      BY <2>1, <2>4 DEF Accepted, Refused, Ignored
    <3>2. sync'.at # "start"
      <4>1. CASE Accepted(ack)
        <5>1. CASE sync.at = "meta"
          BY <1>0, <4>1, <5>1 DEF Accepted, Sync
        <5>2. CASE sync.at = "upload"
          BY <1>0, <4>1, <5>2 DEF Accepted, Sync
        <5>3. CASE sync.at = "pushed"
          BY <1>0, <4>1, <5>3 DEF Accepted, Sync
        <5>4. CASE sync.at \notin {"meta", "upload", "pushed"}
          BY <2>2, <4>1, <5>4 DEF Accepted
        <5> QED BY <5>1, <5>2, <5>3, <5>4
      <4>2. CASE Refused(ack)
        BY <1>0, <2>2, <2>4, <4>2 DEF Refused, Sync
      <4>3. CASE Ignored(ack)
        BY <2>2, <4>3 DEF Ignored
      <4> QED BY <2>1, <4>1, <4>2, <4>3
    <3> QED BY <1>a, <1>c, <3>1, <3>2 DEF watcher
  <2> QED BY <2>3, <2>4
<1>16. CASE Server \/ Sweep \/ OtherWriter \/ UNCHANGED vars
  <2>1. UNCHANGED <<watcher, machine>>
    BY <1>16 DEF Server, ServeDelta, ServeComplete, ServeFault, Sweep, OtherWriter, vars
  <2> QED BY <1>a, <1>c, <2>1 DEF watcher, machine
<1>17. CASE \E p \in Paths : Edit(p) \/ Remove(p)
  <2>1. PICK p \in Paths : \E v : Written(p, v)
    BY <1>17 DEF Edit, Remove
  <2>2. UNCHANGED <<index, chain, machine>> /\ (Noticed(p) \/ Unnoticed(p))
    BY <2>1 DEF Written
  <2>3. sync.at = "start" => UNCHANGED <<dirty, missed>>
    BY <2>2 DEF Noticed, Unnoticed, Phases, Stages
  <2>4. heard \subseteq heard' /\ dirty' \subseteq heard'
    BY <2>2 DEF Noticed, Unnoticed, Knows
  <2>5. \A i \in DOMAIN chain' : chain'[i] \subseteq heard'
    BY <2>2, <2>4 DEF Knows
  <2> QED BY <1>a, <2>2, <2>3, <2>4, <2>5 DEF machine
<1>18. CASE \E id \in awaited : AckTimeout(id)
  <2>1. PICK id \in awaited : AckTimeout(id)
    BY <1>18
  <2>2. CASE PassiveWithFault
    BY <1>b, <2>2
  <2>3. CASE ~PassiveWithFault
    <3>1. sync'.at = sync.at
      BY <1>0, <2>1, <2>3 DEF AckTimeout, Sync
    <3> QED BY <1>a, <1>c, <2>1, <2>3, <3>1 DEF AckTimeout, watcher
  <2> QED BY <2>2, <2>3
<1> QED BY <1>1, <1>2, <1>3, <1>4, <1>5, <1>6, <1>7, <1>8, <1>9, <1>10, <1>11, <1>12, <1>13,
           <1>14, <1>15, <1>16, <1>17, <1>18 DEF Next, Client

LEMMA KnowsAlways == Spec => []Knows
<1>1. Typed /\ Phases /\ Knows /\ [Next]_vars => Knows'
  BY StepKnows
<1> QED BY <1>1, InitKnows, TypedAlways, PhasesAlways, PTL DEF Spec

(* What names a change keeps naming its path; a message keeps its changes.    *)
LEMMA NamedPaths ==
  ASSUME Typed
  PROVE  /\ \A c \in pending : c.path \in Paths
         /\ \A c \in buffered : c.path \in Paths
         /\ \A c \in sync.plan : c.path \in Paths
         /\ sync.deletes \subseteq Paths /\ sync.todo \subseteq Paths
         /\ \A i \in DOMAIN c2s : IsDelta(i) =>
              c2s[i].changes \subseteq Change /\ \A c \in c2s[i].changes : c.path \in Paths
         /\ DOMAIN c2s = 1..Len(c2s) /\ Len(c2s) \in Nat
<1>1. \A c \in Change : c.path \in Paths
  BY DEF Change
<1>2. buffered \subseteq Change /\ pending \subseteq Change /\ sync \in Sync /\ c2s \in Seq(Request)
  BY DEF Typed, TypeOK, MessagesOK
<1>3. sync.plan \subseteq Change /\ sync.deletes \subseteq Paths /\ sync.todo \subseteq Paths
  BY <1>2 DEF Sync
<1>4. \A r \in Request : r.kind = "delta" => r.changes \subseteq Change
  BY DEF Request
<1>5. \A i \in DOMAIN c2s : IsDelta(i) => c2s[i].changes \subseteq Change
  BY <1>2, <1>4 DEF IsDelta
<1>6. DOMAIN c2s = 1..Len(c2s) /\ Len(c2s) \in Nat
  BY <1>2
<1> QED BY <1>1, <1>2, <1>3, <1>5, <1>6

LEMMA NotGivenUp ==
  ASSUME Typed, Heard'
  PROVE  ~Passive /\ ~PassiveWithFault
<1>1. ASSUME Passive \/ PassiveWithFault PROVE FALSE
  <2>1. PICK message \in Silence : GiveUp(message)
    BY <1>1 DEF Passive, PassiveWithFault, Silence
  <2> QED BY <2>1, GiveUpTyped DEF Heard, Going, Working
<1> QED BY <1>1

(* A step that leaves the changes where they are and cools no path.           *)
LEMMA WordRests ==
  ASSUME Typed, Heard, LastWord,
         UNCHANGED <<entries, pending, buffered, c2s>>, sync'.plan = sync.plan,
         \A p \in Paths : local'[p] = local[p] \/ Hot(p)',
         state' = "syncing" => state = "syncing",
         sync'.at \notin {"start", "walk"} => sync.at \notin {"start", "walk"},
         sync'.at = "hash" => sync.at = "hash" /\ sync'.deletes = sync.deletes,
         \A p \in Paths : Listed(p) => Listed(p)',
         \A p \in Paths : Hot(p) => Hot(p)'
  PROVE  LastWord'
<1>1. /\ \A p \in Paths : AfterBuffer(p) => AfterBuffer(p)'
      /\ \A p \in Paths : AfterPlan(p) => AfterPlan(p)'
      /\ \A p \in Paths : AfterWire(p) => AfterWire(p)'
  BY DEF AfterBuffer, AfterPlan, AfterWire
<1>2. \A k, p : p \in Paths /\ After(k, p) => After(k, p)'
  BY <1>1 DEF After, IsDelta
<1>3. \A p \in Paths : Hot(p)' => /\ AfterBuffer(p)' /\ AfterPlan(p)'
                                 /\ \A k : After(k, p)'
  BY DEF AfterBuffer, AfterPlan, AfterWire, After
<1>4. PendingTrue'
  BY NamedPaths DEF LastWord, PendingTrue
<1>5. BufferTrue'
  BY <1>1, <1>3, NamedPaths DEF LastWord, BufferTrue
<1>6. PlanTrue'
  BY <1>1, <1>3, NamedPaths DEF LastWord, PlanTrue
<1>7. DeletesTrue'
  BY <1>1, <1>3, NamedPaths DEF LastWord, DeletesTrue
<1>8. WireTrue'
  BY <1>2, <1>3, NamedPaths DEF LastWord, WireTrue, IsDelta
<1>9. EntriesTrue'
  BY <1>2, <1>3 DEF LastWord, EntriesTrue
<1> QED BY <1>4, <1>5, <1>6, <1>7, <1>8, <1>9 DEF LastWord

(* A batch goes out: what was to come from its changes now comes from it.     *)
LEMMA WordSent ==
  ASSUME Typed, Heard, WireTrue, EntriesTrue,
         NEW base \in Nat, NEW changes \in SUBSET Change, Send(base, changes),
         UNCHANGED <<local, entries>>,
         sync'.at \notin {"start", "walk"} => sync.at \notin {"start", "walk"},
         \A c \in changes : c.content = local[c.path] \/ AfterWire(c.path)',
         \A p \in Paths : AfterWire(p) => AfterWire(p)' \/ Named(changes, p)
  PROVE  WireTrue' /\ EntriesTrue'
<1> DEFINE n == Len(c2s')
<1>1. /\ \A i \in DOMAIN c2s : i \in DOMAIN c2s' /\ c2s'[i] = c2s[i] /\ n > i
      /\ \A i \in DOMAIN c2s' : i \in DOMAIN c2s \/ i = n
      /\ n \in DOMAIN c2s' /\ c2s'[n] = Delta(base, changes) /\ n > 0
  <2>1. /\ \A i \in DOMAIN c2s : i \in DOMAIN c2s' /\ c2s'[i] = c2s[i]
        /\ \A i \in DOMAIN c2s' : i \in DOMAIN c2s \/ i = n
        /\ n \in DOMAIN c2s' /\ c2s'[n] = Delta(base, changes) /\ n = Len(c2s) + 1
    BY SendTyped
  <2>2. DOMAIN c2s = 1..Len(c2s) /\ Len(c2s) \in Nat
    BY NamedPaths
  <2> QED BY <2>1, <2>2
<1>2. c2s'[n].kind = "delta" /\ c2s'[n].changes = changes
  BY <1>1 DEF Delta
<1> HIDE DEF n
<1>3. ASSUME NEW k, n > k, NEW p \in Paths, After(k, p)
      PROVE  After(k, p)'
  <2>1. CASE \E j \in DOMAIN c2s : j > k /\ IsDelta(j) /\ Named(c2s[j].changes, p)
    <3>1. \E j \in DOMAIN c2s' : j > k /\ c2s'[j].kind = "delta" /\ Named(c2s'[j].changes, p)
      BY <1>1, <2>1 DEF IsDelta
    <3> QED BY <3>1 DEF After, IsDelta
  <2>2. CASE AfterWire(p)' 
    BY <2>2 DEF After
  <2>3. CASE Named(changes, p)
    <3>1. \E j \in DOMAIN c2s' : j > k /\ c2s'[j].kind = "delta" /\ Named(c2s'[j].changes, p)
      BY <1>1, <1>2, <1>3, <2>3
    <3> QED BY <3>1 DEF After, IsDelta
  <2> QED BY <1>3, <2>1, <2>2, <2>3 DEF After
<1>4. WireTrue'
  <2> SUFFICES ASSUME NEW i \in DOMAIN c2s', c2s'[i].kind = "delta", NEW c \in c2s'[i].changes
               PROVE  c.content = local'[c.path] \/ After(i, c.path)'
    BY DEF WireTrue, IsDelta
  <2>1. CASE i \in DOMAIN c2s
    <3>1. IsDelta(i) /\ c \in c2s[i].changes /\ c.path \in Paths
      BY <1>1, <2>1, NamedPaths DEF IsDelta
    <3>2. c.content = local[c.path] \/ After(i, c.path)
      BY <2>1, <3>1 DEF WireTrue
    <3> QED BY <1>1, <1>3, <2>1, <3>1, <3>2
  <2>2. CASE i = n
    BY <1>2, <2>2 DEF After
  <2> QED BY <1>1, <2>1, <2>2
<1>5. EntriesTrue'
  <2> SUFFICES ASSUME sync'.at \notin {"start", "walk"}, NEW p \in Paths
               PROVE  entries'[p] = NoEntry \/ entries'[p].content = local'[p] \/ After(0, p)'
    BY DEF EntriesTrue
  <2> QED BY <1>1, <1>3 DEF EntriesTrue
<1> QED BY <1>4, <1>5

(* The request at the head of the queue is served, and says no more.          *)
LEMMA WordServed ==
  ASSUME Typed, c2s # <<>>, c2s' = Tail(c2s), UNCHANGED <<local, pending, buffered, sync, missed, dirty, chain, index>>,
         NEW k \in Nat, NEW p \in Paths, After(k + 1, p)
  PROVE  After(k, p)'
<1>1. /\ DOMAIN c2s = 1..Len(c2s) /\ DOMAIN c2s' = 1..Len(c2s')
      /\ Len(c2s') = Len(c2s) - 1 /\ Len(c2s) \in Nat
      /\ \A i \in DOMAIN c2s' : i \in Nat /\ i + 1 \in DOMAIN c2s /\ c2s'[i] = c2s[i + 1]
  BY HeadRequest
<1>2. CASE AfterWire(p)
  BY <1>2 DEF After, AfterWire, Listed, AfterPlan, AfterBuffer, Hot
<1>3. CASE \E j \in DOMAIN c2s : j > k + 1 /\ IsDelta(j) /\ Named(c2s[j].changes, p)
  <2>1. PICK j \in DOMAIN c2s : j > k + 1 /\ IsDelta(j) /\ Named(c2s[j].changes, p)
    BY <1>3
  <2>2. j - 1 \in DOMAIN c2s' /\ j - 1 + 1 = j /\ j - 1 > k
    BY <1>1, <2>1
  <2>3. c2s'[j - 1] = c2s[j]
    BY <1>1, <2>2
  <2> QED BY <2>1, <2>2, <2>3 DEF After, IsDelta
<1> QED BY <1>2, <1>3 DEF After

LEMMA ServedWire ==
  ASSUME Typed, WireTrue, c2s # <<>>, c2s' = Tail(c2s),
         UNCHANGED <<local, pending, buffered, sync, missed, dirty, chain, index>>
  PROVE  WireTrue'
<1> SUFFICES ASSUME NEW i \in DOMAIN c2s', c2s'[i].kind = "delta", NEW c \in c2s'[i].changes
             PROVE  c.content = local'[c.path] \/ After(i, c.path)'
  BY DEF WireTrue, IsDelta
<1>1. i \in Nat /\ i + 1 \in DOMAIN c2s /\ c2s'[i] = c2s[i + 1] /\ IsDelta(i + 1)
  BY HeadRequest DEF IsDelta
<1>2. c.path \in Paths /\ (c.content = local[c.path] \/ After(i + 1, c.path))
  BY <1>1, NamedPaths DEF WireTrue
<1> QED BY <1>1, <1>2, WordServed

(* A write to a file makes its path hot.                                      *)
LEMMA WordWritten ==
  ASSUME Typed, Phases, Knows, Heard, LastWord, Removed,
         NEW p \in Paths, NEW v \in Version, Written(p, v),
         local[p] # 0 \/ v # 0
  PROVE  LastWord'
<1>1. /\ UNCHANGED <<index, chain, entries, pending, buffered, sync, c2s, state>>
      /\ local' = [local EXCEPT ![p] = v] /\ local \in [Paths -> Version]
      /\ Noticed(p) \/ Unnoticed(p)
  BY DEF Written, machine, server, Typed, TypeOK
<1>2. /\ local'[p] = v
      /\ \A q \in Paths : q # p => local'[q] = local[q]
  BY <1>1
<1>3. \A q \in Paths : q # p /\ Hot(q) => Hot(q)'
  BY <1>1, <1>2 DEF Hot, Noticed, Unnoticed
<1>4. Noticed(p) /\ (v # 0 \/ p \in index) => Hot(p)'
  BY <1>1, <1>2 DEF Hot, Noticed
<1>5. CASE sync.at \notin {"start", "walk"}
  <2>1. watch = "on"
    BY <1>5 DEF Heard, Going, Working, Phases, Stages
  <2>2. Noticed(p) => Hot(p)'
    BY <1>2, <1>4, <1>5 DEF Removed
  <2>3. Unnoticed(p) => Hot(p)'
    BY <1>5, <2>1 DEF Unnoticed, Hot
  <2>4. \A q \in Paths : /\ Hot(q) => Hot(q)'
                         /\ local'[q] = local[q] \/ Hot(q)'
    BY <1>1, <1>2, <1>3, <2>2, <2>3
  <2>5. /\ sync'.plan = sync.plan /\ (state' = "syncing" => state = "syncing")
        /\ (sync'.at \notin {"start", "walk"} => sync.at \notin {"start", "walk"})
        /\ (sync'.at = "hash" => sync.at = "hash" /\ sync'.deletes = sync.deletes)
        /\ \A q \in Paths : Listed(q) => Listed(q)'
    BY <1>1 DEF Listed
  <2> QED BY <1>1, <2>4, <2>5, WordRests
<1>6. CASE sync.at \in {"start", "walk"}
  <2>1. pending' = {} /\ sync'.plan = {} /\ c2s' = <<>> /\ sync'.at \in {"start", "walk"}
    BY <1>1, <1>6 DEF Phases, Stages, Unsent
  <2>2. PendingTrue' /\ PlanTrue' /\ DeletesTrue' /\ WireTrue' /\ EntriesTrue'
    BY <2>1 DEF PendingTrue, PlanTrue, DeletesTrue, WireTrue, EntriesTrue
  <2>3. BufferTrue'
    <3> SUFFICES ASSUME state = "syncing", NEW c \in buffered
                 PROVE  c.content = local'[c.path] \/ AfterBuffer(c.path)'
      BY <1>1 DEF BufferTrue
    <3>1. sync.at = "walk" /\ watch = "on" /\ c.path \in Paths /\ c.path \in heard
      BY <1>6, NamedPaths DEF Knows, Phases, Stages
    <3>2. CASE c.path = p
      <4>1. c.content = v \/ v # 0 \/ c.content # 0
        OBVIOUS
      <4>2. c.content # 0 => p \in index
        BY <3>2 DEF Knows
      <4>3. Noticed(p)
        BY <1>1, <3>1, <3>2 DEF Unnoticed
      <4> QED BY <1>2, <1>4, <3>1, <3>2, <4>1, <4>2, <4>3 DEF AfterBuffer
    <3>3. CASE c.path # p
      BY <1>1, <1>2, <1>3, <3>1, <3>3 DEF LastWord, BufferTrue, AfterBuffer
    <3> QED BY <3>2, <3>3
  <2> QED BY <2>2, <2>3 DEF LastWord
<1> QED BY <1>5, <1>6

(* A flush files what it found where it belongs.                              *)
LEMMA WordFlushed ==
  ASSUME Typed, Phases, Heard, LastWord, Flush
  PROVE  LastWord'
<1>0. PICK unread \in SUBSET (Head(chain) \cap Present) :
         /\ missed' = missed \cup unread
         /\ IF state = "syncing"
            THEN buffered' = Overlay(buffered, Found(Head(chain) \ unread)) /\ UNCHANGED pending
            ELSE pending' = Overlay(pending, Found(Head(chain) \ unread)) /\ UNCHANGED buffered
  BY DEF Flush
<1> DEFINE found == Found(Head(chain) \ unread)
<1>1. /\ UNCHANGED <<local, entries, c2s, state>>
      /\ Head(chain) \ unread \in SUBSET Paths
  BY DEF Flush, disk, server, Typed, TypeOK
<1>2. /\ \/ sync'.at = sync.at
         \/ sync.at = "flush" /\ sync'.at = "push"
      /\ sync'.plan = sync.plan /\ sync'.todo = sync.todo /\ sync'.deletes = sync.deletes
  BY FlushAdvances
<1>3. \A c \in found : c.content = local[c.path] /\ c.path \in Paths
  BY <1>1, FoundIsTrue DEF Change
<1>4. \A p \in Paths : Hot(p) => Hot(p)' \/ Named(found, p)
  BY <1>0, FlushKeepsHot
<1> HIDE DEF found
<1>5. \A older, p : Named(older, p) \/ Named(found, p) => Named(Overlay(older, found), p)
  BY DEF Named, Overlay
<1>6. \A older : \A c \in Overlay(older, found) :
         c \in found \/ (c \in older /\ ~Named(found, c.path))
  BY DEF Named, Overlay
<1>7. CASE state = "syncing"
  <2>1. buffered' = Overlay(buffered, found) /\ pending' = pending /\ pending = {}
    BY <1>0, <1>7 DEF Phases, Stages, found
  <2>2. \A p \in Paths : AfterPlan(p) => AfterPlan(p)'
    BY <1>4, <1>5, <2>1 DEF AfterPlan, AfterBuffer
  <2>3. PendingTrue'
    BY <2>1 DEF PendingTrue
  <2>4. BufferTrue'
    <3> SUFFICES ASSUME NEW c \in buffered'
                 PROVE  c.content = local'[c.path] \/ AfterBuffer(c.path)'
      BY DEF BufferTrue
    <3>1. CASE c \in found
      BY <1>1, <1>3, <3>1
    <3>2. CASE c \in buffered /\ ~Named(found, c.path)
      <4>1. c.path \in Paths /\ (c.content = local[c.path] \/ AfterBuffer(c.path))
        BY <1>7, <3>2, NamedPaths DEF LastWord, BufferTrue
      <4> QED BY <1>1, <1>4, <2>1, <3>2, <4>1 DEF AfterBuffer
    <3> QED BY <1>6, <2>1, <3>1, <3>2
  <2>5. \A k, p : p \in Paths /\ After(k, p) => After(k, p)'
    BY <1>1, <1>2, <2>2 DEF After, AfterWire, Listed, IsDelta
  <2>6. PlanTrue' /\ DeletesTrue'
    BY <1>1, <1>2, <2>2, NamedPaths DEF LastWord, PlanTrue, DeletesTrue
  <2>7. WireTrue' /\ EntriesTrue'
    BY <1>1, <1>2, <2>5, NamedPaths DEF LastWord, WireTrue, EntriesTrue, IsDelta
  <2> QED BY <2>3, <2>4, <2>6, <2>7 DEF LastWord
<1>8. CASE state # "syncing"
  <2>1. pending' = Overlay(pending, found) /\ buffered' = buffered
    BY <1>0, <1>8 DEF found
  <2>2. \A p \in Paths : AfterPlan(p) => AfterPlan(p)'
    BY <1>4, <1>5, <2>1 DEF AfterPlan, AfterBuffer
  <2>3. PendingTrue'
    <3> SUFFICES ASSUME NEW c \in pending'
                 PROVE  c.content = local'[c.path] \/ Hot(c.path)'
      BY DEF PendingTrue
    <3>1. CASE c \in found
      BY <1>1, <1>3, <3>1
    <3>2. CASE c \in pending /\ ~Named(found, c.path)
      BY <1>1, <1>4, <3>2, NamedPaths DEF LastWord, PendingTrue
    <3> QED BY <1>6, <2>1, <3>1, <3>2
  <2>4. BufferTrue'
    BY <1>1, <1>8 DEF BufferTrue
  <2>5. \A k, p : p \in Paths /\ After(k, p) => After(k, p)'
    BY <1>1, <1>2, <2>2 DEF After, AfterWire, Listed, IsDelta
  <2>6. PlanTrue' /\ DeletesTrue'
    BY <1>1, <1>2, <2>2, NamedPaths DEF LastWord, PlanTrue, DeletesTrue
  <2>7. WireTrue' /\ EntriesTrue'
    BY <1>1, <1>2, <2>5, NamedPaths DEF LastWord, WireTrue, EntriesTrue, IsDelta
  <2> QED BY <2>3, <2>4, <2>6, <2>7 DEF LastWord
<1> QED BY <1>7, <1>8

(* A batch is written to the manifest: its entries are what the batch says.   *)
LEMMA WordApplied ==
  ASSUME Typed, Phases, Heard, Heard', LastWord, ServeDelta
  PROVE  LastWord'
<1> DEFINE d == Head(c2s)
<1>1. /\ c2s # <<>> /\ c2s' = Tail(c2s)
      /\ UNCHANGED <<local, pending, buffered, sync, missed, dirty, chain, index, state>>
  BY DEF ServeDelta, disk, watcher, machine
<1>2. /\ 1 \in DOMAIN c2s /\ d = c2s[1] /\ IsDelta(1) /\ d.changes \subseteq Change
      /\ DOMAIN c2s' = 1..Len(c2s') /\ DOMAIN c2s = 1..Len(c2s)
  BY <1>1, HeadRequest, NamedPaths DEF ServeDelta, IsDelta
<1>3. PICK manifest \in ManifestsRead : entries' = Applied(manifest, d.changes)
  <2>1. PICK code \in Codes, revision \in Nat :
           /\ Len(s2c') = Len(s2c) + 1 /\ Len(s2c) \in Nat /\ DOMAIN s2c' = 1..Len(s2c')
           /\ s2c'[Len(s2c')] = Ack(d.id, code, revision)
    BY AckAppended
  <2>2. s2c'[Len(s2c')].code = "ok"
    BY <2>1 DEF Heard
  <2>3. s2c \in Seq(Acks)
    BY DEF Typed, TypeOK, Acks
  <2>4. \A c, r : Reply(d.id, c, r) => s2c'[Len(s2c')] = Ack(d.id, c, r)
    BY <2>1, <2>3 DEF Reply
  <2>5. \A c, r : Ack(d.id, c, r).code = c
    BY DEF Ack
  <2> HIDE DEF d
  <2> QED BY <2>2, <2>4, <2>5 DEF ServeDelta, d
<1> HIDE DEF d
<1>4. PendingTrue' /\ BufferTrue' /\ PlanTrue' /\ DeletesTrue'
  BY <1>1 DEF LastWord, PendingTrue, BufferTrue, PlanTrue, DeletesTrue, AfterPlan, AfterBuffer, Hot
<1>5. WireTrue'
  BY <1>1, ServedWire DEF LastWord
<1>6. EntriesTrue'
  <2> SUFFICES ASSUME NEW p \in Paths
               PROVE  entries'[p] = NoEntry \/ entries'[p].content = local[p] \/ After(0, p)'
    BY <1>1 DEF EntriesTrue
  <2>1. sync.at \notin {"start", "walk"}
    BY <1>1 DEF Phases, Unsent
  <2>2. After(1, p) => After(0, p)'
    BY <1>1, WordServed
  <2>3. CASE Named(d.changes, p)
    <3> DEFINE c == CHOOSE c \in d.changes : c.path = p
    <3>1. c \in d.changes /\ c.path = p
      BY <2>3 DEF Named
    <3>2. entries'[p] = [stat |-> c.stat, content |-> c.content]
      BY <1>3, <2>3 DEF Applied, Named
    <3> HIDE DEF c
    <3>3. c.content = local[p] \/ After(1, p)
      BY <1>2, <3>1 DEF LastWord, WireTrue
    <3> QED BY <2>2, <3>2, <3>3
  <2>4. CASE ~Named(d.changes, p)
    <3>1. entries'[p] \in {entries[p], NoEntry}
      BY <1>3, <2>4, ReadManifest DEF Applied, Named
    <3>2. After(0, p) => After(1, p)
      BY <1>2, <2>4 DEF After
    <3> QED BY <2>1, <2>2, <3>1, <3>2 DEF LastWord, EntriesTrue
  <2> QED BY <2>3, <2>4
<1> QED BY <1>4, <1>5, <1>6 DEF LastWord

(* Any other message is taken off the queue.                                  *)
LEMMA WordSkipped ==
  ASSUME Typed, Phases, Heard, LastWord, ServeComplete \/ ServeFault
  PROVE  LastWord'
<1>1. /\ c2s # <<>> /\ c2s' = Tail(c2s) /\ Head(c2s).kind # "delta"
      /\ UNCHANGED <<local, pending, buffered, sync, missed, dirty, chain, index, state>>
      /\ \A p \in Paths : entries'[p] \in {entries[p], NoEntry}
  BY ReadManifest DEF ServeComplete, ServeFault, disk, watcher, machine
<1>2. 1 \in DOMAIN c2s /\ ~IsDelta(1) /\ DOMAIN c2s = 1..Len(c2s)
  BY <1>1, HeadRequest DEF IsDelta
<1>3. PendingTrue' /\ BufferTrue' /\ PlanTrue' /\ DeletesTrue'
  BY <1>1 DEF LastWord, PendingTrue, BufferTrue, PlanTrue, DeletesTrue, AfterPlan, AfterBuffer, Hot
<1>4. WireTrue'
  BY <1>1, ServedWire DEF LastWord
<1>5. \A p \in Paths : After(0, p) => After(0, p)'
  <2>1. \A p \in Paths : After(0, p) => After(1, p)
    BY <1>2 DEF After
  <2>2. \A p \in Paths : After(1, p) => After(0, p)'
    BY <1>1, WordServed
  <2> QED BY <2>1, <2>2
<1>6. EntriesTrue'
  BY <1>1, <1>5 DEF LastWord, EntriesTrue
<1> QED BY <1>3, <1>4, <1>6 DEF LastWord

(* Another writer adds nothing to the manifest, and may find it empty.        *)
LEMMA WordElsewhere ==
  ASSUME Typed, Heard, LastWord, OtherWriter
  PROVE  LastWord'
<1>1. /\ UNCHANGED <<local, pending, buffered, sync, missed, dirty, chain, index, state, c2s>>
      /\ \A p \in Paths : entries'[p] \in {entries[p], NoEntry}
  BY ReadManifest DEF OtherWriter, disk, watcher, machine
<1>2. /\ \A p \in Paths : AfterBuffer(p) <=> AfterBuffer(p)'
      /\ \A p \in Paths : AfterPlan(p) <=> AfterPlan(p)'
      /\ \A p \in Paths : Hot(p) <=> Hot(p)'
      /\ \A k, p : p \in Paths /\ After(k, p) => After(k, p)'
  BY <1>1 DEF After, AfterWire, AfterPlan, AfterBuffer, Hot, Listed, IsDelta
<1>3. PendingTrue' /\ BufferTrue' /\ PlanTrue' /\ DeletesTrue'
  BY <1>1, <1>2, NamedPaths DEF LastWord, PendingTrue, BufferTrue, PlanTrue, DeletesTrue
<1>4. WireTrue'
  BY <1>1, <1>2, NamedPaths DEF LastWord, WireTrue, IsDelta
<1>5. EntriesTrue'
  BY <1>1, <1>2 DEF LastWord, EntriesTrue
<1> QED BY <1>3, <1>4, <1>5 DEF LastWord

(* The walk finds every entry that is out of date.                            *)
LEMMA WordWalked ==
  ASSUME Typed, Phases, Heard, LastWord, Walk
  PROVE  LastWord'
<1>0. sync \in Sync
  BY DEF Typed, TypeOK
<1>1. /\ sync.at = "walk" /\ sync'.at = "hash" /\ sync'.plan = sync.plan
      /\ sync'.todo = {p \in Present : entries[p].stat # local[p]}
      /\ sync'.deletes = {p \in Paths \ Present : entries[p] # NoEntry}
      /\ UNCHANGED <<local, entries, pending, buffered, c2s, state, missed, dirty, chain, index>>
  BY <1>0 DEF Walk, Sync, disk, watcher, server
<1>2. sync.plan = {} /\ c2s = <<>>
      /\ \A p \in Paths : entries[p] \in {NoEntry, [stat |-> 1, content |-> 1]}
  BY <1>1 DEF Phases, Stages, Unsent
<1>3. PendingTrue' /\ BufferTrue'
  BY <1>1 DEF LastWord, PendingTrue, BufferTrue, AfterBuffer, Hot
<1>4. PlanTrue' /\ WireTrue'
  BY <1>1, <1>2 DEF PlanTrue, WireTrue
<1>5. DeletesTrue'
  BY <1>1 DEF DeletesTrue, Present
<1>6. EntriesTrue'
  <2> SUFFICES ASSUME NEW p \in Paths
               PROVE  entries[p] = NoEntry \/ entries[p].content = local[p] \/ Listed(p)'
    BY <1>1 DEF EntriesTrue, After, AfterWire
  <2>1. CASE entries[p] = [stat |-> 1, content |-> 1] /\ p \in Present
    BY <1>1, <2>1 DEF Listed
  <2>2. CASE entries[p] # NoEntry /\ p \notin Present
    BY <1>1, <2>2 DEF Listed
  <2> QED BY <1>2, <2>1, <2>2
<1> QED BY <1>3, <1>4, <1>5, <1>6 DEF LastWord

(* A file is read: the plan has what is on disk.                              *)
LEMMA WordHashed ==
  ASSUME Typed, Phases, Heard, LastWord, NEW f \in Paths, Hash(f)
  PROVE  LastWord'
<1>0. sync \in Sync
  BY DEF Typed, TypeOK
<1>1. PICK sha \in {local[f]} \cup {v \in {1} : f \in Hits /\ sync.walked[f] = v} :
         sync' = [sync EXCEPT !.todo = @ \ {f},
                              !.plan = @ \cup {[path |-> f, stat |-> sync.walked[f],
                                                content |-> local[f], sha |-> sha]}]
  BY DEF Hash
<1> DEFINE new == [path |-> f, stat |-> sync.walked[f], content |-> local[f], sha |-> sha]
<1>2. /\ sync.at = "hash" /\ sync'.at = "hash" /\ sync'.plan = sync.plan \cup {new}
      /\ sync'.todo = sync.todo \ {f} /\ sync'.deletes = sync.deletes
      /\ UNCHANGED <<local, entries, pending, buffered, c2s, state, missed, dirty, chain, index>>
  BY <1>0, <1>1 DEF Hash, Sync, disk, watcher, server
<1>3. new.path = f /\ new.content = local[f]
  OBVIOUS
<1> HIDE DEF new
<1>4. /\ \A p \in Paths : AfterBuffer(p) <=> AfterBuffer(p)'
      /\ \A p \in Paths : AfterPlan(p) <=> AfterPlan(p)'
      /\ \A p \in Paths : Hot(p) <=> Hot(p)'
  BY <1>2 DEF AfterPlan, AfterBuffer, Hot
<1>5. \A p \in Paths : AfterWire(p) => AfterWire(p)'
  BY <1>2, <1>3, <1>4 DEF AfterWire, Listed, Named
<1>6. c2s = <<>>
  BY <1>2 DEF Phases, Unsent
<1>7. PendingTrue' /\ BufferTrue'
  BY <1>2, <1>4, NamedPaths DEF LastWord, PendingTrue, BufferTrue
<1>8. PlanTrue'
  BY <1>2, <1>3, <1>4, NamedPaths DEF LastWord, PlanTrue
<1>9. DeletesTrue'
  BY <1>2, <1>4, NamedPaths DEF LastWord, DeletesTrue
<1>10. WireTrue'
  BY <1>2, <1>6 DEF WireTrue
<1>11. EntriesTrue'
  <2>1. \A p \in Paths : After(0, p) => After(0, p)'
    BY <1>5, <1>6 DEF After
  <2> QED BY <1>2, <2>1 DEF LastWord, EntriesTrue
<1> QED BY <1>7, <1>8, <1>9, <1>10, <1>11 DEF LastWord

(* The deletions go out as one batch.                                         *)
LEMMA WordMeta ==
  ASSUME Typed, Phases, Heard, LastWord, SendMeta
  PROVE  LastWord'
<1>0. sync \in Sync
  BY DEF Typed, TypeOK
<1>1. /\ sync.at = "hash" /\ sync.todo = {} /\ sync'.at \in {"meta", "upload"}
      /\ sync'.plan = sync.plan
      /\ UNCHANGED <<local, entries, pending, buffered, state, missed, dirty, chain, index>>
  BY <1>0 DEF SendMeta, Sync, disk, watcher, server
<1>2. /\ \A p \in Paths : AfterBuffer(p) <=> AfterBuffer(p)'
      /\ \A p \in Paths : AfterPlan(p) <=> AfterPlan(p)'
      /\ \A p \in Paths : Hot(p) <=> Hot(p)'
  BY <1>1 DEF AfterPlan, AfterBuffer, Hot
<1>3. CASE sync.deletes = {}
  <2>1. \A p \in Paths : ~Listed(p)
    BY <1>1, <1>3 DEF Listed
  <2> QED BY <1>1, <1>2, <1>3, <2>1, WordRests DEF SendMeta
<1>4. CASE sync.deletes # {}
  <2>1. Send(0, Deleted(sync.deletes)) /\ Deleted(sync.deletes) \in SUBSET Change
    BY <1>0, <1>1, <1>4, FoundAreChanges DEF SendMeta, Sync
  <2>2. \A c \in Deleted(sync.deletes) : c.content = local[c.path] \/ AfterWire(c.path)'
    <3>1. \A c \in Deleted(sync.deletes) : c.path \in sync.deletes /\ c.content = 0
      BY DEF Deleted
    <3> QED BY <1>1, <1>2, <3>1, NamedPaths DEF LastWord, DeletesTrue, AfterWire
  <2>3. \A p \in Paths : AfterWire(p) => AfterWire(p)' \/ Named(Deleted(sync.deletes), p)
    <3>1. ASSUME NEW p \in sync.deletes PROVE Named(Deleted(sync.deletes), p)
      <4>1. [path |-> p, stat |-> 0, content |-> 0, sha |-> 0] \in Deleted(sync.deletes)
        BY DEF Deleted
      <4> QED BY <4>1 DEF Named
    <3> QED BY <1>1, <1>2, <3>1 DEF AfterWire, Listed
  <2>4. WireTrue' /\ EntriesTrue'
    BY <1>1, <2>1, <2>2, <2>3, WordSent DEF LastWord
  <2>5. PendingTrue' /\ BufferTrue' /\ PlanTrue'
    BY <1>1, <1>2, NamedPaths DEF LastWord, PendingTrue, BufferTrue, PlanTrue
  <2>6. DeletesTrue'
    BY <1>1 DEF DeletesTrue
  <2> QED BY <2>4, <2>5, <2>6 DEF LastWord
<1> QED BY <1>3, <1>4

(* A file of the plan goes out.                                               *)
LEMMA WordUploaded ==
  ASSUME Typed, Phases, Heard, LastWord, NEW c \in sync.plan, SendUpload(c)
  PROVE  LastWord'
<1>0. sync \in Sync
  BY DEF Typed, TypeOK
<1>1. /\ sync.at = "upload" /\ sync'.at = "upload" /\ sync'.plan = sync.plan \ {c}
      /\ UNCHANGED <<local, entries, pending, buffered, state, missed, dirty, chain, index>>
  BY <1>0 DEF SendUpload, Sync, disk, watcher, server
<1>2. /\ \A p \in Paths : AfterBuffer(p) <=> AfterBuffer(p)'
      /\ \A p \in Paths : AfterPlan(p) <=> AfterPlan(p)'
      /\ \A p \in Paths : Hot(p) <=> Hot(p)'
  BY <1>1 DEF AfterPlan, AfterBuffer, Hot
<1>3. Send(sync.next, {c}) /\ {c} \in SUBSET Change /\ sync.next \in Nat
  BY <1>0 DEF SendUpload, Sync
<1>4. c.content = local[c.path] \/ AfterWire(c.path)'
  BY <1>2, NamedPaths DEF LastWord, PlanTrue, AfterWire
<1>5. \A p \in Paths : AfterWire(p) => AfterWire(p)' \/ Named({c}, p)
  BY <1>1, <1>2 DEF AfterWire, Listed, Named
<1>6. WireTrue' /\ EntriesTrue'
  BY <1>1, <1>3, <1>4, <1>5, WordSent DEF LastWord
<1>7. PendingTrue' /\ BufferTrue' /\ PlanTrue' /\ DeletesTrue'
  BY <1>1, <1>2, NamedPaths DEF LastWord, PendingTrue, BufferTrue, PlanTrue, DeletesTrue
<1> QED BY <1>6, <1>7 DEF LastWord

(* What was buffered meanwhile goes out.                                      *)
LEMMA WordPushed ==
  ASSUME Typed, Phases, Heard, LastWord, PushBuffered
  PROVE  LastWord'
<1>0. sync \in Sync /\ buffered \in SUBSET Change /\ rev \in Nat
  BY DEF Typed, TypeOK
<1>1. /\ sync.at = "push" /\ sync'.at \in {"complete", "pushed"} /\ sync'.plan = sync.plan
      /\ buffered' = {}
      /\ UNCHANGED <<local, entries, pending, state, missed, dirty, chain, index>>
  BY <1>0 DEF PushBuffered, Sync, disk, watcher, server
<1>2. sync.plan = {}
  BY <1>1 DEF Phases, Stages
<1>3. /\ \A p \in Paths : AfterBuffer(p) <=> AfterBuffer(p)'
      /\ \A p \in Paths : Hot(p) <=> Hot(p)'
  BY <1>1 DEF AfterBuffer, Hot
<1>4. PendingTrue' /\ BufferTrue' /\ PlanTrue' /\ DeletesTrue'
  BY <1>1, <1>2, <1>3, NamedPaths DEF LastWord, PendingTrue, BufferTrue, PlanTrue, DeletesTrue
<1>5. CASE buffered = {}
  <2>1. c2s' = c2s /\ \A p \in Paths : Listed(p) => Listed(p)'
    BY <1>1, <1>5 DEF PushBuffered, Listed
  <2> QED BY <1>1, <1>3, <1>5, <2>1, WordRests
<1>6. CASE buffered # {}
  <2>1. Send(rev, buffered)
    BY <1>6 DEF PushBuffered
  <2>2. \A c \in buffered : c.content = local[c.path] \/ AfterWire(c.path)'
    <3>1. state = "syncing"
      BY <1>1 DEF Phases, Stages
    <3> QED BY <1>3, <3>1, NamedPaths DEF LastWord, BufferTrue, AfterWire, AfterPlan
  <2>3. \A p \in Paths : AfterWire(p) => AfterWire(p)' \/ Named(buffered, p)
    BY <1>1, <1>3 DEF AfterWire, AfterPlan, Listed
  <2>4. WireTrue' /\ EntriesTrue'
    BY <1>0, <1>1, <2>1, <2>2, <2>3, WordSent DEF LastWord
  <2> QED BY <1>4, <2>4 DEF LastWord
<1> QED BY <1>5, <1>6

(* The pending changes go out.                                                *)
LEMMA WordDrained ==
  ASSUME Typed, Phases, Heard, LastWord, Drain
  PROVE  LastWord'
<1>0. pending \in SUBSET Change /\ rev \in Nat
  BY DEF Typed, TypeOK
<1>1. /\ state = "watching" /\ pending' = {} /\ Send(rev, pending)
      /\ UNCHANGED <<local, entries, buffered, state, sync, missed, dirty, chain, index>>
  BY DEF Drain, disk, watcher, server
<1>2. sync.plan = {} /\ sync.at = "over"
  BY <1>1 DEF Phases, Stages
<1>3. \A p \in Paths : Hot(p) <=> Hot(p)'
  BY <1>1 DEF Hot
<1>4. \A c \in pending : c.content = local[c.path] \/ AfterWire(c.path)'
  BY <1>3, NamedPaths DEF LastWord, PendingTrue, AfterWire, AfterPlan, AfterBuffer
<1>5. \A p \in Paths : AfterWire(p) => AfterWire(p)' \/ Named(pending, p)
  BY <1>1, <1>3 DEF AfterWire, AfterPlan, AfterBuffer, Listed
<1>6. WireTrue' /\ EntriesTrue'
  BY <1>0, <1>1, <1>4, <1>5, WordSent DEF LastWord
<1>7. PendingTrue' /\ BufferTrue' /\ PlanTrue' /\ DeletesTrue'
  BY <1>1, <1>2 DEF PendingTrue, BufferTrue, PlanTrue, DeletesTrue
<1> QED BY <1>6, <1>7 DEF LastWord

(* The end of the initial sync is announced.                                  *)
LEMMA WordCompleted ==
  ASSUME Typed, Phases, Heard, LastWord, SendComplete
  PROVE  LastWord'
<1>0. sync \in Sync /\ c2s \in Seq(Request) /\ [kind |-> "complete", base |-> rev] \in Request
  BY DEF Typed, TypeOK, MessagesOK, Request
<1>1. /\ sync.at = "complete" /\ sync'.at = "sent" /\ sync'.plan = sync.plan
      /\ UNCHANGED <<local, entries, pending, buffered, state, missed, dirty, chain, index>>
      /\ c2s' = Append(c2s, [kind |-> "complete", base |-> rev])
  BY <1>0 DEF SendComplete, Sync, disk, watcher, server
<1>2. /\ \A i \in DOMAIN c2s : i \in DOMAIN c2s' /\ c2s'[i] = c2s[i]
      /\ \A i \in DOMAIN c2s' : c2s'[i].kind = "delta" => i \in DOMAIN c2s
  BY <1>0, <1>1
<1>3. /\ \A p \in Paths : AfterBuffer(p) <=> AfterBuffer(p)'
      /\ \A p \in Paths : AfterPlan(p) <=> AfterPlan(p)'
      /\ \A p \in Paths : AfterWire(p) <=> AfterWire(p)'
  BY <1>1 DEF AfterWire, AfterPlan, AfterBuffer, Hot, Listed
<1>4. \A k, p : p \in Paths /\ After(k, p) => After(k, p)'
  BY <1>2, <1>3 DEF After, IsDelta
<1>5. PendingTrue' /\ BufferTrue' /\ PlanTrue' /\ DeletesTrue'
  BY <1>1 DEF LastWord, PendingTrue, BufferTrue, PlanTrue, DeletesTrue, AfterPlan, AfterBuffer, Hot
<1>6. WireTrue'
  BY <1>1, <1>2, <1>4, NamedPaths DEF LastWord, WireTrue, IsDelta
<1>7. EntriesTrue'
  BY <1>1, <1>4 DEF LastWord, EntriesTrue
<1> QED BY <1>5, <1>6, <1>7 DEF LastWord

LEMMA InitLastWord == Init => LastWord
  BY DEF Init, LastWord, PendingTrue, BufferTrue, PlanTrue, DeletesTrue, WireTrue, EntriesTrue,
         NewSync

LEMMA ClientStepLastWord ==
  ASSUME Typed, Phases, Knows, Heard, Heard', LastWord, Client, AckTaken \/ ~ReceiveAck
  PROVE  LastWord'
<1>0. sync \in Sync
  BY DEF Typed, TypeOK
<1>a. ASSUME UNCHANGED <<local, entries, pending, buffered, c2s, missed, dirty, chain, index>>,
             sync'.plan = sync.plan, state' = "syncing" => state = "syncing",
             sync'.at \notin {"start", "walk"} => sync.at \notin {"start", "walk"},
             sync'.at # "hash", sync.at # "hash"
      PROVE  LastWord'
  <2>1. \A p \in Paths : /\ Hot(p) => Hot(p)'
                         /\ Listed(p) => Listed(p)'
    BY <1>a DEF Hot, Listed
  <2> QED BY <1>a, <2>1, WordRests
<1>1. CASE WatcherIndexes
  <2>1. chain = <<>> /\ dirty = {} /\ missed = {} /\ UNCHANGED <<local, entries, machine, c2s>>
    BY <1>1 DEF WatcherIndexes, Knows, disk, server
  <2>2. \A p \in Paths : ~Hot(p)
    BY <2>1 DEF Hot
  <2> QED BY <2>1, <2>2, WordRests DEF machine, Listed
<1>2. CASE WatcherArms
  <2>1. sync.at = "start" /\ sync'.at = "walk" /\ sync'.plan = sync.plan
    BY <1>0, <1>2 DEF WatcherArms, Sync, Phases, Stages
  <2> QED BY <1>2, <1>a, <2>1 DEF WatcherArms, disk, server
<1>3. CASE FlushTimer
  <2>1. UNCHANGED <<local, entries, machine, c2s, index, missed>>
    BY <1>3 DEF FlushTimer, disk, server
  <2>2. \A p \in Paths : Hot(p) => Hot(p)'
    BY <1>3, <2>1, QueuedStaysHot DEF FlushTimer
  <2> QED BY <2>1, <2>2, WordRests DEF machine, Listed
<1>4. CASE Flush
  BY <1>4, WordFlushed
<1>5. CASE Walk
  BY <1>5, WordWalked
<1>6. CASE SendMeta
  BY <1>6, WordMeta
<1>7. CASE UploadCrashes \/ UploadFails
  BY <1>7, NotGivenUp DEF UploadCrashes, UploadFails
<1>8. CASE Uploaded
  <2>1. /\ sync.at = "upload" /\ sync'.at \in {"push", "flush"} /\ sync'.plan = sync.plan
        /\ UNCHANGED <<local, entries, pending, buffered, state, c2s, index, missed>>
    BY <1>0, <1>8 DEF Uploaded, Sync, disk, server
  <2>2. CASE dirty = {}
    BY <1>8, <1>a, <2>1, <2>2 DEF Uploaded
  <2>3. CASE dirty # {}
    <3>1. \A p \in Paths : /\ Hot(p) => Hot(p)'
                           /\ Listed(p) => Listed(p)'
      BY <1>8, <2>1, <2>3, QueuedStaysHot DEF Uploaded, Listed
    <3> QED BY <2>1, <3>1, WordRests
  <2> QED BY <2>2, <2>3
<1>9. CASE PushBuffered
  BY <1>9, WordPushed
<1>10. CASE SendComplete
  BY <1>10, WordCompleted
<1>11. CASE StartWatching
  <2>1. sync.at = "sent" /\ sync.plan = {} /\ sync'.at = "over" /\ sync'.plan = {}
    BY <1>11 DEF StartWatching, NewSync, Phases, Stages
  <2> QED BY <1>11, <1>a, <2>1 DEF StartWatching, disk, watcher, server
<1>12. CASE \E p \in Paths : Hash(p) \/ HashFails(p)
  BY <1>12, WordHashed, NotGivenUp DEF HashFails
<1>13. CASE \E c \in sync.plan : SendUpload(c)
  BY <1>13, WordUploaded
<1>14. CASE Drain
  BY <1>14, WordDrained
<1>15. CASE ReceiveAck
  <2> DEFINE ack == Head(s2c)
  <2>1. /\ s2c # <<>> /\ UNCHANGED <<local, entries>> /\ (Accepted(ack) \/ Ignored(ack))
    BY <1>15 DEF ReceiveAck, AckTaken, disk, server
  <2> HIDE DEF ack
  <2>2. sync.at \notin {"start", "walk", "hash"}
    BY <2>1 DEF Phases, Unsent
  <2>3. UNCHANGED <<pending, buffered, c2s, missed, dirty, chain, index, state>>
    BY <2>1 DEF Accepted, Ignored, watcher
  <2>4. sync'.plan = sync.plan /\ sync'.at # "hash"
    <3>1. CASE Accepted(ack)
      <4>1. CASE sync.at = "meta"
        BY <1>0, <3>1, <4>1 DEF Accepted, Sync
      <4>2. CASE sync.at = "upload"
        BY <1>0, <3>1, <4>2 DEF Accepted, Sync
      <4>3. CASE sync.at = "pushed"
        BY <1>0, <3>1, <4>3 DEF Accepted, Sync
      <4>4. CASE sync.at \notin {"meta", "upload", "pushed"}
        BY <2>2, <3>1, <4>4 DEF Accepted
      <4> QED BY <4>1, <4>2, <4>3, <4>4
    <3>2. CASE Ignored(ack)
      BY <2>2, <3>2 DEF Ignored
    <3> QED BY <2>1, <3>1, <3>2
  <2> QED BY <1>a, <2>1, <2>2, <2>3, <2>4
<1> QED BY <1>1, <1>2, <1>3, <1>4, <1>5, <1>6, <1>7, <1>8, <1>9, <1>10, <1>11, <1>12, <1>13,
           <1>14, <1>15 DEF Client

(* A refusal that somebody waited for ends the client's work or fails the     *)
(* initial sync: it is not forgotten.                                         *)
LEMMA HeardStays ==
  ASSUME Typed, Phases, [Next]_vars, [Heeded]_vars, Heard'
  PROVE  Heard /\ (AckTaken \/ ~ReceiveAck)
<1>1. Going /\ (LiveAckLate \/ StepKind)
  BY WorkSteps DEF Heard
<1>2. Heard
  <2>1. CASE UNCHANGED s2c
    BY <1>1, <2>1 DEF Heard
  <2>2. CASE ServeDelta
    <3>1. \A i \in DOMAIN s2c : i \in DOMAIN s2c' /\ s2c'[i] = s2c[i]
      BY <2>2, AckAppended
    <3> QED BY <1>1, <3>1 DEF Heard
  <2>3. CASE AckTaken /\ ~UNCHANGED s2c
    <3>1. s2c # <<>> /\ s2c' = Tail(s2c)
      BY <2>3 DEF AckTaken, ReceiveAck
    <3>2. /\ 1 \in DOMAIN s2c /\ Head(s2c) = s2c[1] /\ Len(s2c) \in Nat
          /\ DOMAIN s2c = 1..Len(s2c) /\ DOMAIN s2c' = 1..Len(s2c') /\ Len(s2c') = Len(s2c) - 1
          /\ \A i \in DOMAIN s2c' : i \in Nat /\ i + 1 \in DOMAIN s2c /\ s2c'[i] = s2c[i + 1]
      BY <3>1, HeadAck
    <3>3. s2c[1].code = "ok"
      BY <2>3, <3>2 DEF AckTaken, Accepted, Heeded, vars
    <3>4. ASSUME NEW i \in DOMAIN s2c, i # 1 PROVE s2c[i].code = "ok"
      <4>1. i - 1 \in DOMAIN s2c' /\ i - 1 + 1 = i
        BY <3>2, <3>4
      <4>2. s2c'[i - 1] = s2c[i]
        BY <3>2, <4>1
      <4> QED BY <4>1, <4>2 DEF Heard
    <3> QED BY <1>1, <3>3, <3>4 DEF Heard
  <2> QED BY <1>1, <2>1, <2>2, <2>3
          DEF StepKind, LiveAckLate, QueuesRest, DeltaSent, CompleteSent, OtherServed
<1>3. ReceiveAck => AckTaken
  <2> SUFFICES ASSUME ReceiveAck PROVE ~Refused(Head(s2c)) \/ Accepted(Head(s2c))
    BY DEF ReceiveAck, AckTaken
  <2>1. s2c # <<>> /\ s2c' = Tail(s2c)
    BY DEF ReceiveAck
  <2>2. 1 \in DOMAIN s2c /\ Head(s2c) = s2c[1]
    BY <2>1, HeadAck
  <2> QED BY <1>2, <2>2 DEF Heard, Refused, TokenGone
<1> QED BY <1>2, <1>3

LEMMA StepLastWord ==
  ASSUME Typed, Phases, Knows, LastWord, [Next]_vars, [Removed]_vars, [Heeded]_vars
  PROVE  LastWord'
<1> SUFFICES ASSUME Heard' PROVE LastWord'
  BY DEF LastWord
<1>1. Heard /\ (AckTaken \/ ~ReceiveAck)
  BY HeardStays
<1>2. CASE Client
  BY <1>1, <1>2, ClientStepLastWord
<1>3. CASE ServeDelta
  BY <1>1, <1>3, WordApplied
<1>4. CASE ServeComplete \/ ServeFault
  BY <1>1, <1>4, WordSkipped
<1>5. CASE \E p \in Paths : Edit(p) \/ Remove(p)
  <2>1. PICK p \in Paths : Edit(p) \/ Remove(p)
    BY <1>5
  <2>2. PICK v \in Version : Written(p, v) /\ (local[p] # 0 \/ v # 0)
    <3>1. Edit(p) => newest + 1 \in Version /\ newest + 1 # 0
      BY ConstantTypes DEF Edit, Typed, TypeOK, Version
    <3> QED BY <2>1, <3>1, ConstantTypes DEF Edit, Remove
  <2>3. Removed \/ local' = local
    BY DEF vars, disk
  <2>4. Removed
    BY <2>3 DEF Removed
  <2> QED BY <1>1, <2>2, <2>4, WordWritten
<1>6. CASE Sweep \/ UNCHANGED vars
  <2>1. UNCHANGED <<local, index, missed, dirty, chain, entries, machine, c2s>>
    BY <1>6 DEF Sweep, vars, disk, watcher, server
  <2>2. \A p \in Paths : Hot(p) => Hot(p)'
    BY <2>1 DEF Hot
  <2> QED BY <1>1, <2>1, <2>2, WordRests DEF machine, Listed
<1>9. CASE OtherWriter
  BY <1>1, <1>9, WordElsewhere
<1>7. CASE WatcherFails
  BY <1>7, NotGivenUp DEF WatcherFails
<1>8. CASE \E id \in awaited : AckTimeout(id)
  <2>1. timeouts' = timeouts + 1 /\ timeouts \in Nat
    BY <1>8 DEF AckTimeout, Typed, TypeOK
  <2>2. LiveAckLate
    BY <2>1, WorkSteps DEF Heard
  <2>3. \A p \in Paths : /\ Hot(p) => Hot(p)'
                         /\ Listed(p) => Listed(p)'
    BY <2>2 DEF LiveAckLate, disk, watcher, Hot, Listed
  <2> QED BY <1>1, <2>2, <2>3, WordRests DEF LiveAckLate, disk, watcher, server
<1> QED BY <1>2, <1>3, <1>4, <1>5, <1>6, <1>7, <1>8, <1>9 DEF Next, Server

LEMMA LastWordAlways == Spec /\ [][Removed]_vars /\ [][Heeded]_vars => []LastWord
<1>1. /\ Typed /\ Phases /\ Knows /\ LastWord /\ [Next]_vars /\ [Removed]_vars /\ [Heeded]_vars
      => LastWord'
  BY StepLastWord
<1> QED BY <1>1, InitLastWord, TypedAlways, PhasesAlways, KnowsAlways, PTL DEF Spec

(* The changes after a stale entry of a task that is served are where they    *)
(* can still be sent from, stranded in the buffer, or what the watcher missed.*)
LEMMA LastWordIsUnderway ==
  ASSUME Typed, Phases, LastWord
  PROVE  StaleIsUnderway
<1> SUFFICES ASSUME Served, NEW p \in Paths, Stale(p)
             PROVE  Underway(p) \/ Lost(p)
  BY DEF StaleIsUnderway
<1>1. Heard /\ sync.at = "over" /\ sync.plan = {}
  BY DEF Served, Heard, Going, Working, Phases, Stages
<1>2. After(0, p)
  BY <1>1 DEF LastWord, EntriesTrue, Stale
<1> QED BY <1>1, <1>2
        DEF After, AfterWire, AfterPlan, AfterBuffer, Listed, Hot, Named, Underway, Lost, Stranded,
            IsDelta

(* While acks come in time somebody waits for every one of them.              *)
LEMMA InTimeHeeded ==
  ASSUME Typed, Answers, Alive
  PROVE  Heeded
<1> SUFFICES ASSUME ReceiveAck, Ignored(Head(s2c)) PROVE FALSE
  BY DEF Heeded
<1>1. s2c # <<>> /\ s2c' = Tail(s2c)
  BY DEF ReceiveAck
<1>2. 1 \in DOMAIN s2c /\ Head(s2c) = s2c[1]
  BY <1>1, HeadAck
<1> QED BY <1>2 DEF Answers, Ignored

LEMMA InTimeLastWord ==
  Spec /\ [][Removed]_vars => [](timeouts = 0 => LastWord)
<1>1. /\ Typed /\ Phases /\ Answers /\ Knows /\ (timeouts = 0 => LastWord)
      /\ [Next]_vars /\ [Removed]_vars
      => (timeouts = 0 => LastWord)'
  <2> SUFFICES ASSUME Typed, Phases, Answers, Knows, timeouts = 0 => LastWord,
                      [Next]_vars, [Removed]_vars, timeouts' = 0, Heard'
               PROVE  LastWord'
    BY DEF LastWord
  <2>1. Alive
    BY StepKinds DEF Heard, Alive
  <2>2. Heeded
    BY <2>1, InTimeHeeded
  <2> QED BY <2>1, <2>2, StepLastWord DEF Alive
<1> QED BY <1>1, InitLastWord, TypedAlways, PhasesAlways, AnswersAlways, KnowsAlways, PTL DEF Spec

-----------------------------------------------------------------------------
(* One ack that comes too late.                                               *)

(* What the watcher reported declares the hashes of what it read.             *)
Reported == Honest(buffered) /\ Honest(pending)

(* A client at its initial sync had every ack in time, and at its end claims  *)
(* a revision that the task has.                                              *)
Claimed == ~Faults /\ Going =>
    /\ state = "syncing" => timeouts = 0
    /\ \A i \in DOMAIN c2s : IsComplete(i) => c2s[i].base <= taskRev

(* Without late heartbeats nobody takes the assignment from a client at work. *)
Trusted == ~Faults /\ Going => executor

(* Outside the upload loop the batch under way will be accepted.              *)
Welcome(i) == c2s[i].base = taskRev /\ Honest(c2s[i].changes)
Live == ~Faults /\ Alive /\ sync.at # "upload" =>
    /\ \A i \in DOMAIN s2c : s2c[i].code = "ok"
    /\ \A i \in DOMAIN c2s : IsDelta(i) => Welcome(i)

(* Behind one late ack: the batch nobody waits for is in front of the others  *)
(* and is welcome, so a refusal is one that somebody waits for.               *)
Late == ~Faults /\ Going /\ timeouts = 1 =>
    /\ state = "watching"
    /\ \A i \in DOMAIN s2c : s2c[i].code = "ok" \/ s2c[i].id \in awaited
    /\ \A i \in DOMAIN c2s : IsDelta(i) =>
          c2s[i].id \in awaited \/ (Welcome(i) /\ \A j \in DOMAIN c2s : j < i => ~IsDelta(j))

LEMMA StepReported ==
  ASSUME Typed, Reported, [Next]_vars
  PROVE  Reported'
<1>a. ASSUME UNCHANGED <<buffered, pending>> PROVE Reported'
  BY <1>a DEF Reported
<1>b. ASSUME Passive \/ PassiveWithFault PROVE Reported'
  <2>1. PICK message \in Silence : GiveUp(message)
    BY <1>b DEF Passive, PassiveWithFault, Silence
  <2> QED BY <2>1 DEF GiveUp, Reported, Honest
<1>1. CASE Flush
  <2>1. \A paths : Honest(Found(paths))
    BY FoundAreHonest
  <2>2. \A older, paths : Honest(older) => Honest(Overlay(older, Found(paths)))
    BY <2>1 DEF Honest, Overlay
  <2> QED BY <1>1, <2>2 DEF Flush, Reported
<1>2. CASE PushBuffered
  BY <1>2 DEF PushBuffered, Reported, Honest
<1>3. CASE Drain
  BY <1>3 DEF Drain, Reported, Honest
<1>4. CASE WatcherIndexes \/ WatcherArms \/ FlushTimer \/ Walk \/ SendMeta \/ Uploaded
           \/ SendComplete \/ StartWatching \/ \E c \in sync.plan : SendUpload(c)
  BY <1>4, <1>a DEF WatcherIndexes, WatcherArms, FlushTimer, Walk, SendMeta, Uploaded,
     SendComplete, StartWatching, SendUpload, machine
<1>5. CASE UploadCrashes \/ UploadFails \/ WatcherFails
  BY <1>5, <1>b DEF UploadCrashes, UploadFails, WatcherFails
<1>6. CASE \E p \in Paths : Hash(p) \/ HashFails(p)
  BY <1>6, <1>a, <1>b DEF Hash, HashFails
<1>7. CASE ReceiveAck
  <2>1. PICK ack : Accepted(ack) \/ Refused(ack) \/ Ignored(ack)
    BY <1>7 DEF ReceiveAck
  <2> QED BY <2>1, <1>a, <1>b DEF Accepted, Refused, Ignored
<1>8. CASE \E id \in awaited : AckTimeout(id)
  BY <1>8, <1>a, <1>b DEF AckTimeout
<1>9. CASE Server \/ Sweep \/ OtherWriter \/ UNCHANGED vars \/ \E p \in Paths : Edit(p) \/ Remove(p)
  BY <1>9, <1>a DEF Server, ServeDelta, ServeComplete, ServeFault, Sweep, OtherWriter, vars, Edit,
     Remove, Written, machine
<1> QED BY <1>1, <1>2, <1>3, <1>4, <1>5, <1>6, <1>7, <1>8, <1>9 DEF Next, Client

(* A client that watches goes on watching or gives up.                        *)
LEMMA WatchingStays ==
  ASSUME Typed, Phases, [Next]_vars, Going', state = "watching"
  PROVE  state' = "watching"
<1>1. ~Passive /\ ~PassiveWithFault
  <2>1. ASSUME Passive \/ PassiveWithFault PROVE FALSE
    <3>1. PICK message \in Silence : GiveUp(message)
      BY <2>1 DEF Passive, PassiveWithFault, Silence
    <3> QED BY <3>1, GiveUpTyped DEF Going, Working
  <2> QED BY <2>1
<1>2. ReceiveAck => state' = state
  <2> SUFFICES ASSUME ReceiveAck PROVE state' = state
    OBVIOUS
  <2>1. PICK ack : Accepted(ack) \/ Refused(ack) \/ Ignored(ack)
    BY DEF ReceiveAck
  <2> QED BY <1>1, <2>1 DEF Accepted, Refused, Ignored
<1>3. (\E id \in awaited : AckTimeout(id)) => state' = state
  BY <1>1 DEF AckTimeout
<1> QED BY <1>1, <1>2, <1>3 DEF Next, Client, Server, ServeDelta, ServeComplete, ServeFault, Edit,
     Remove, Written, WatcherFails, Sweep, OtherWriter, vars, machine, WatcherIndexes, WatcherArms,
     FlushTimer, Walk, Flush, SendMeta, UploadCrashes, UploadFails, Uploaded, PushBuffered,
     SendComplete, StartWatching, Hash, HashFails, SendUpload, Drain

(* While the manifest can be read the revision of the task does not go back.  *)
LEMMA RevisionGrows ==
  ASSUME ~Faults, Typed, StoreAhead, [Next]_vars
  PROVE  taskRev <= taskRev'
<1>1. taskRev \in Nat /\ storeRev \in Nat
  BY DEF Typed, TypeOK
<1>2. CASE ServeDelta
  BY <1>1, <1>2, ReadRight DEF ServeDelta, StoreAhead, Manifest
<1>3. CASE UNCHANGED taskRev
  BY <1>1, <1>3
<1> QED BY <1>2, <1>3
        DEF Next, Client, Server, ServeComplete, ServeFault, Edit, Remove, Written, WatcherFails,
            Sweep, OtherWriter, AckTimeout, vars, server, WatcherIndexes, WatcherArms, FlushTimer,
            Flush, Walk, SendMeta, UploadCrashes, UploadFails, Uploaded, PushBuffered, SendComplete,
            StartWatching, Hash, HashFails, SendUpload, Drain, ReceiveAck

LEMMA StepClaimed ==
  ASSUME Typed, Typed', Phases, Phases', Answers, StoreAhead, Revisions, Claimed, [Next]_vars
  PROVE  Claimed'
<1> SUFFICES ASSUME ~Faults, Going' PROVE Claimed'
  BY DEF Claimed
<1>1. Going /\ (LiveAckLate \/ (StepKind /\ timeouts' = timeouts))
  BY WorkSteps
<1>2. /\ state = "syncing" => timeouts = 0
      /\ \A i \in DOMAIN c2s : IsComplete(i) => c2s[i].base <= taskRev
  BY <1>1 DEF Claimed
<1>3. /\ taskRev <= taskRev' /\ taskRev \in Nat /\ taskRev' \in Nat
      /\ c2s \in Seq(Request) /\ rev \in Nat
      /\ \A i \in DOMAIN c2s : IsComplete(i) => c2s[i].base \in Nat
  <2>1. \A r \in Request : r.kind = "complete" => r.base \in Nat
    BY DEF Request
  <2>2. /\ taskRev \in Nat /\ taskRev' \in Nat /\ c2s \in Seq(Request) /\ rev \in Nat
    BY DEF Typed, TypeOK, MessagesOK
  <2>3. taskRev <= taskRev'
    BY RevisionGrows
  <2> QED BY <2>1, <2>2, <2>3 DEF IsComplete
<1>4. state' = "syncing" => timeouts' = 0
  <2> SUFFICES ASSUME state' = "syncing" PROVE timeouts' = 0
    OBVIOUS
  <2>1. state = "syncing"
    BY <1>1, WatchingStays DEF Going, Working
  <2> QED BY <1>1, <1>2, <2>1 DEF LiveAckLate
<1>5. ASSUME \A i \in DOMAIN c2s' : c2s'[i].kind = "complete" =>
                \E j \in DOMAIN c2s : c2s'[i] = c2s[j]
      PROVE  Claimed'
  <2>1. ASSUME NEW i \in DOMAIN c2s', c2s'[i].kind = "complete"
        PROVE  c2s'[i].base <= taskRev'
    <3>1. PICK j \in DOMAIN c2s : c2s'[i] = c2s[j]
      BY <1>5, <2>1
    <3>2. c2s[j].base <= taskRev /\ c2s[j].base \in Nat
      BY <1>2, <1>3, <2>1, <3>1 DEF IsComplete
    <3> QED BY <1>3, <3>1, <3>2
  <2> QED BY <1>4, <2>1 DEF Claimed, IsComplete
<1>6. CASE UNCHANGED c2s
  BY <1>5, <1>6
<1>7. CASE c2s # <<>> /\ c2s' = Tail(c2s)
  BY <1>5, <1>7, HeadRequest
<1>8. CASE DeltaSent
  <2>1. PICK base \in Nat, changes \in SUBSET Change : Send(base, changes)
    BY <1>8 DEF DeltaSent
  <2>2. /\ \A i \in DOMAIN c2s' : i \in DOMAIN c2s \/ i = Len(c2s')
        /\ \A i \in DOMAIN c2s : c2s'[i] = c2s[i]
        /\ c2s'[Len(c2s')] = Delta(base, changes)
    BY <2>1, SendTyped
  <2>3. Delta(base, changes).kind = "delta"
    BY DEF Delta
  <2> QED BY <1>5, <2>2, <2>3
<1>9. CASE CompleteSent
  <2>1. sync.at = "complete" /\ awaited = {} /\ state = "syncing"
    BY <1>9 DEF CompleteSent, Phases, OneAwaited, Stages
  <2>2. Alive
    BY <1>1, <1>2, <2>1 DEF Alive
  <2>3. s2c = <<>> /\ Good
    BY <2>1, <2>2, WireIsAwaited DEF Good
  <2>4. taskRev = rev
    BY <2>1, <2>3 DEF Revisions, Known
  <2> DEFINE done == [kind |-> "complete", base |-> rev]
  <2>5. /\ \A i \in DOMAIN c2s' : i \in DOMAIN c2s \/ i = Len(c2s')
        /\ \A i \in DOMAIN c2s : c2s'[i] = c2s[i]
        /\ c2s'[Len(c2s')] = done
    <3>1. done \in Request /\ c2s' = Append(c2s, done)
      BY <1>3, <1>9 DEF CompleteSent, Request
    <3> QED BY <1>3, <3>1
  <2>6. ASSUME NEW i \in DOMAIN c2s', c2s'[i].kind = "complete"
        PROVE  c2s'[i].base <= taskRev'
    <3>1. CASE i \in DOMAIN c2s
      <4>1. c2s[i].base <= taskRev /\ c2s[i].base \in Nat
        BY <1>2, <1>3, <2>5, <2>6, <3>1 DEF IsComplete
      <4> QED BY <1>3, <2>5, <3>1, <4>1
    <3>2. CASE i = Len(c2s')
      BY <1>3, <2>4, <2>5, <3>2
    <3> QED BY <2>5, <3>1, <3>2
  <2> QED BY <1>4, <2>6 DEF Claimed, IsComplete
<1> QED BY <1>1, <1>6, <1>7, <1>8, <1>9
        DEF StepKind, LiveAckLate, QueuesRest, OtherServed, ServeDelta, AckTaken, ReceiveAck,
            Accepted, Ignored

LEMMA StepTrusted ==
  ASSUME Typed, Phases, Claimed, Trusted, [Next]_vars
  PROVE  Trusted'
<1> SUFFICES ASSUME ~Faults, Going' PROVE executor'
  BY DEF Trusted
<1>1. Going /\ executor
  BY WorkSteps DEF Trusted
<1>2. CASE ServeFault
  <2>1. c2s # <<>> /\ Head(c2s).kind \in {"fault", "closed"} /\ c2s' = Tail(c2s)
    BY <1>2 DEF ServeFault
  <2>2. 1 \in DOMAIN c2s /\ Head(c2s) = c2s[1]
    BY <2>1, HeadRequest
  <2> QED BY <1>1, <2>1, <2>2 DEF Going, Phases, Sent
<1>3. CASE Sweep
  BY <1>1, <1>3 DEF Sweep, Going, Working
<1>4. CASE ServeComplete
  <2>1. c2s # <<>> /\ Head(c2s).kind = "complete" /\ c2s' = Tail(c2s)
    BY <1>4 DEF ServeComplete
  <2>2. 1 \in DOMAIN c2s /\ Head(c2s) = c2s[1]
    BY <2>1, HeadRequest
  <2>3. Head(c2s).base <= taskRev
    BY <1>1, <2>1, <2>2 DEF Claimed, IsComplete
  <2>4. Head(c2s).base \in Nat /\ taskRev \in Nat
    <3>1. Head(c2s) \in Request /\ taskRev \in Nat
      BY <2>1, HeadRequest DEF Typed, TypeOK
    <3> QED BY <2>1, <3>1 DEF Request
  <2>5. ~(taskRev < Head(c2s).base)
    BY <2>3, <2>4
  <2> QED BY <1>1, <1>4, <2>5 DEF ServeComplete
<1>5. CASE ~ServeFault /\ ~Sweep /\ ~ServeComplete
  <2>1. executor' = executor
    BY <1>5 DEF Next, Client, Server, WatcherIndexes, WatcherArms, FlushTimer, Flush, Walk, SendMeta,
         UploadCrashes, UploadFails, Uploaded, PushBuffered, SendComplete, StartWatching, Hash,
         HashFails, SendUpload, Drain, ReceiveAck, ServeDelta, Edit, Remove,
         Written, WatcherFails, OtherWriter, AckTimeout, vars, server
  <2> QED BY <1>1, <2>1
<1> QED BY <1>2, <1>3, <1>4, <1>5

(* The upload loop is left when all its batches were answered.                *)
LEMMA UploadLeft ==
  ASSUME Typed, Phases, Answers, [Next]_vars, Alive', sync.at = "upload", sync'.at # "upload"
  PROVE  UNCHANGED <<c2s, s2c>> /\ s2c = <<>> /\ \A i \in DOMAIN c2s : ~IsDelta(i)
<1>0. Alive /\ sync \in Sync
  BY StepKinds DEF Typed, TypeOK
<1>1. ~Passive /\ ~PassiveWithFault
  <2>1. ASSUME Passive \/ PassiveWithFault PROVE FALSE
    <3>1. PICK message \in Silence : GiveUp(message)
      BY <2>1 DEF Passive, PassiveWithFault, Silence
    <3> QED BY <3>1, GiveUpTyped DEF Alive, Going, Working
  <2> QED BY <2>1
<1>2. sync' # sync
  OBVIOUS
<1>3. ~ReceiveAck
  <2> SUFFICES ASSUME ReceiveAck PROVE sync'.at = "upload"
    OBVIOUS
  <2>1. PICK ack : Accepted(ack) \/ Refused(ack) \/ Ignored(ack)
    BY DEF ReceiveAck
  <2>2. CASE Accepted(ack)
    BY <1>0, <2>2 DEF Accepted, Sync
  <2>3. CASE Refused(ack)
    BY <1>0, <1>1, <2>3 DEF Refused, Sync
  <2> QED BY <2>1, <2>2, <2>3 DEF Ignored
<1>4. ~\E c \in sync.plan : SendUpload(c)
  BY <1>0 DEF SendUpload, Sync
<1>5. ~Flush
  BY FlushAdvances
<1>6. ~\E id \in awaited : AckTimeout(id)
  <2> SUFFICES ASSUME NEW id \in awaited, AckTimeout(id) PROVE FALSE
    OBVIOUS
  <2>1. timeouts' = timeouts + 1 /\ timeouts = 0 /\ timeouts' = 0
    BY <1>0 DEF AckTimeout, Alive
  <2> QED BY <2>1
<1>7. Client
  BY <1>1, <1>2, <1>6 DEF Next, Server, ServeDelta, ServeComplete, ServeFault, Edit, Remove, Written,
     WatcherFails, Sweep, OtherWriter, vars, machine
<1>8. Uploaded
  BY <1>1, <1>2, <1>3, <1>4, <1>5, <1>7 DEF Client, WatcherIndexes, WatcherArms, FlushTimer, Walk,
     SendMeta, UploadCrashes, UploadFails, PushBuffered, SendComplete, StartWatching, Hash,
     HashFails, Drain, machine, Phases, Stages
<1>9. awaited = {} /\ UNCHANGED <<c2s, s2c>>
  BY <1>8 DEF Uploaded
<1> QED BY <1>0, <1>9, WireIsAwaited

(* A batch outside the upload loop is sent on the client's own revision when  *)
(* none is under way.                                                         *)
LEMMA LiveSend ==
  ASSUME Typed, Phases, Reported, [Next]_vars, Alive', DeltaSent, sync'.at # "upload"
  PROVE  \E changes \in SUBSET Change : Send(rev, changes) /\ Honest(changes) /\ awaited = {}
<1>0. sync \in Sync /\ rev \in Nat /\ buffered \in SUBSET Change /\ pending \in SUBSET Change
  BY DEF Typed, TypeOK
<1>1. /\ ~Passive /\ ~PassiveWithFault
      /\ c2s' # c2s /\ batches' # batches
  <2>1. ASSUME Passive \/ PassiveWithFault PROVE FALSE
    <3>1. PICK message \in Silence : GiveUp(message)
      BY <2>1 DEF Passive, PassiveWithFault, Silence
    <3> QED BY <3>1, GiveUpTyped DEF Alive, Going, Working
  <2>2. batches' = batches + 1 /\ batches \in Nat
    BY DEF DeltaSent, Send, Typed, TypeOK
  <2>3. \E base \in Nat, changes \in SUBSET Change : Send(base, changes)
    BY DEF DeltaSent
  <2>4. Len(c2s') = Len(c2s) + 1 /\ Len(c2s) \in Nat
    BY <2>3, SendTyped, NamedPaths
  <2> QED BY <2>1, <2>2, <2>4
<1>2. ~\E c \in sync.plan : SendUpload(c)
  BY <1>0 DEF SendUpload, Sync
<1>3. SendMeta \/ PushBuffered \/ Drain
  BY <1>1, <1>2 DEF Next, Client, Server, ServeDelta, ServeComplete, ServeFault, Edit, Remove, Written,
     WatcherFails, Sweep, OtherWriter, vars, machine, WatcherIndexes, WatcherArms, FlushTimer, Walk,
     Flush, UploadCrashes, UploadFails, Uploaded, SendComplete, StartWatching, Hash, HashFails,
     ReceiveAck, AckTimeout
<1>4. CASE SendMeta
  <2>1. sync.deletes # {}
    BY <1>1, <1>4 DEF SendMeta
  <2>2. Send(0, Deleted(sync.deletes)) /\ Deleted(sync.deletes) \in SUBSET Change
    BY <1>0, <1>4, <2>1, FoundAreChanges DEF SendMeta, Sync
  <2>3. rev = 0 /\ awaited = {}
    BY <1>4 DEF SendMeta, Phases, Unsent, OneAwaited
  <2> QED BY <2>2, <2>3, FoundAreHonest
<1>5. CASE PushBuffered
  <2>1. Send(rev, buffered) /\ awaited = {}
    BY <1>1, <1>5 DEF PushBuffered, Phases, OneAwaited
  <2> QED BY <1>0, <2>1 DEF Reported
<1>6. CASE Drain
  BY <1>0, <1>6 DEF Drain, Reported
<1> QED BY <1>3, <1>4, <1>5, <1>6

(* A welcome batch is accepted.                                               *)
LEMMA WelcomeAccepted ==
  ASSUME Typed, Trusted, ~Faults, Going, ServeDelta, Welcome(1)
  PROVE  \A i \in DOMAIN s2c' : s2c'[i].code = "ok" \/ (i \in DOMAIN s2c /\ s2c'[i] = s2c[i])
<1> DEFINE d == Head(c2s)
<1>1. d = c2s[1] /\ executor
  BY HeadRequest DEF ServeDelta, Trusted
<1>2. Verdict(d) = "ok"
  BY <1>1 DEF Verdict, Welcome, Honest
<1>3. \E revision : s2c' = Append(s2c, Ack(d.id, "ok", revision))
  BY <1>2 DEF ServeDelta, Reply
<1> HIDE DEF d
<1>4. PICK revision : s2c' = Append(s2c, Ack(d.id, "ok", revision))
  BY <1>3
<1>5. Ack(d.id, "ok", revision).code = "ok"
  BY DEF Ack
<1>6. s2c \in Seq(Acks)
  BY DEF Typed, TypeOK, Acks
<1> QED BY <1>4, <1>5, <1>6

LEMMA StepLive ==
  ASSUME Typed, Typed', Phases, Answers, Revisions, Reported, Trusted, Live, [Next]_vars
  PROVE  Live'
<1> SUFFICES ASSUME ~Faults, Alive', sync'.at # "upload"
             PROVE  /\ \A i \in DOMAIN s2c' : s2c'[i].code = "ok"
                    /\ \A i \in DOMAIN c2s' : c2s'[i].kind = "delta" => Welcome(i)'
  BY DEF Live, IsDelta
<1>0. Alive /\ StepKind
  BY StepKinds
<1>1. CASE sync.at = "upload"
  BY <1>1, UploadLeft DEF IsDelta
<1>2. CASE sync.at # "upload"
  <2>1. Good /\ \A i \in DOMAIN c2s : IsDelta(i) => Welcome(i)
    BY <1>0, <1>2 DEF Live, Good
  <2>2. CASE QueuesRest
    BY <2>1, <2>2 DEF QueuesRest, Good, Welcome, IsDelta
  <2>3. CASE DeltaSent
    <3>1. PICK changes \in SUBSET Change : Send(rev, changes) /\ Honest(changes) /\ awaited = {}
      BY <2>3, LiveSend
    <3>2. s2c = <<>> /\ \A i \in DOMAIN c2s : ~IsDelta(i)
      BY <1>0, <3>1, WireIsAwaited
    <3>3. taskRev = rev /\ rev \in Nat
      BY <1>2, <2>1, <3>2 DEF Revisions, Known, Typed, TypeOK
    <3>4. /\ \A i \in DOMAIN c2s' : i \in DOMAIN c2s \/ i = Len(c2s')
          /\ \A i \in DOMAIN c2s : c2s'[i] = c2s[i]
          /\ c2s'[Len(c2s')] = Delta(rev, changes)
      BY <3>1, <3>3, SendTyped
    <3>5. Delta(rev, changes).base = rev /\ Delta(rev, changes).changes = changes
      BY DEF Delta
    <3>6. s2c' = s2c /\ taskRev' = taskRev
      BY <2>3 DEF DeltaSent
    <3> QED BY <2>1, <3>1, <3>2, <3>3, <3>4, <3>5, <3>6 DEF Welcome, IsDelta, Good
  <2>4. CASE CompleteSent
    <3>1. [kind |-> "complete", base |-> rev] \in Request /\ c2s \in Seq(Request)
      BY DEF Typed, TypeOK, MessagesOK, Request
    <3>2. \A i \in DOMAIN c2s' : c2s'[i].kind = "delta" => i \in DOMAIN c2s /\ c2s'[i] = c2s[i]
      BY <2>4, <3>1 DEF CompleteSent
    <3> QED BY <2>1, <2>4, <3>2 DEF CompleteSent, Good, Welcome, IsDelta
  <2>5. CASE OtherServed
    <3>1. \A i \in DOMAIN c2s' : i + 1 \in DOMAIN c2s /\ c2s'[i] = c2s[i + 1]
      BY <2>5, HeadRequest DEF OtherServed
    <3> QED BY <2>1, <2>5, <3>1 DEF OtherServed, Good, Welcome, IsDelta
  <2>6. CASE ServeDelta
    <3>1. /\ 1 \in DOMAIN c2s /\ IsDelta(1)
          /\ \A i \in DOMAIN c2s' : i \in Nat /\ i + 1 \in DOMAIN c2s /\ c2s'[i] = c2s[i + 1]
          /\ DOMAIN c2s' = 1..Len(c2s')
      BY <2>6, HeadRequest DEF ServeDelta, IsDelta
    <3>2. \A i \in DOMAIN s2c' : s2c'[i].code = "ok"
      BY <1>0, <2>1, <2>6, <3>1, WelcomeAccepted DEF Alive, Good
    <3>3. ASSUME NEW i \in DOMAIN c2s', c2s'[i].kind = "delta" PROVE FALSE
      <4>1. IsDelta(i + 1) /\ i + 1 # 1
        BY <3>1, <3>3 DEF IsDelta
      <4> QED BY <1>0, <1>2, <3>1, <3>3, <4>1, WireIsAwaited
    <3> QED BY <3>2, <3>3
  <2>7. CASE AckTaken
    <3>1. s2c # <<>> /\ s2c' = Tail(s2c) /\ taskRev' = taskRev /\ c2s' = c2s
      BY <2>7 DEF AckTaken, ReceiveAck, Accepted, Ignored, server
    <3>2. \A i \in DOMAIN s2c' : i + 1 \in DOMAIN s2c /\ s2c'[i] = s2c[i + 1]
      BY <3>1, HeadAck
    <3> QED BY <2>1, <3>1, <3>2 DEF Good, Welcome, IsDelta
  <2> QED BY <1>0, <2>2, <2>3, <2>4, <2>5, <2>6, <2>7 DEF StepKind
<1> QED BY <1>1, <1>2

(* The first late ack.                                                        *)
LEMMA LateComes ==
  ASSUME Typed, Phases, Answers, Live, ~Faults, Alive, LiveAckLate
  PROVE  Late'
<1>1. /\ state = "watching" /\ sync.at # "upload"
      /\ UNCHANGED <<state, c2s, s2c, taskRev>>
  BY DEF LiveAckLate, server, Phases, Stages
<1>2. /\ \A i \in DOMAIN s2c : s2c[i].code = "ok"
      /\ \A i \in DOMAIN c2s : IsDelta(i) => Welcome(i)
  BY <1>1 DEF Live
<1>3. \A i, j \in DOMAIN c2s : IsDelta(i) /\ j < i => ~IsDelta(j)
  <2>1. \A i \in DOMAIN c2s : i \in Nat
    BY NamedPaths
  <2>2. \A i, j \in DOMAIN c2s : IsDelta(i) /\ IsDelta(j) => i = j
    BY <1>1, WireIsAwaited
  <2> QED BY <2>1, <2>2
<1> QED BY <1>1, <1>2, <1>3 DEF Late, Welcome, IsDelta

LEMMA StepLate ==
  ASSUME Typed, Typed', Phases, Answers, Ordered, Live, Trusted, Late, [Next]_vars
  PROVE  Late'
<1> SUFFICES ASSUME ~Faults, Going', timeouts' = 1 PROVE Late'
  BY DEF Late
<1>0. Going /\ (LiveAckLate \/ (StepKind /\ timeouts' = timeouts)) /\ timeouts \in Nat
  BY WorkSteps DEF Typed, TypeOK
<1>1. CASE LiveAckLate
  <2>1. timeouts = 0
    BY <1>0, <1>1 DEF LiveAckLate
  <2> QED BY <1>0, <1>1, <2>1, LateComes DEF Alive
<1>2. CASE StepKind /\ timeouts = 1
  <2>1. /\ state = "watching" /\ sync.at = "over"
        /\ \A i \in DOMAIN s2c : s2c[i].code = "ok" \/ s2c[i].id \in awaited
        /\ \A i \in DOMAIN c2s : IsDelta(i) =>
              c2s[i].id \in awaited \/ (Welcome(i) /\ \A j \in DOMAIN c2s : j < i => ~IsDelta(j))
    BY <1>0, <1>2 DEF Late, Phases, Stages
  <2>2. state' = "watching"
    BY <2>1, WatchingStays
  <2> SUFFICES
        /\ \A i \in DOMAIN s2c' : s2c'[i].code = "ok" \/ s2c'[i].id \in awaited'
        /\ \A i \in DOMAIN c2s' : c2s'[i].kind = "delta" =>
              \/ c2s'[i].id \in awaited'
              \/ Welcome(i)' /\ \A j \in DOMAIN c2s' : j < i => c2s'[j].kind # "delta"
    BY <2>2 DEF Late, IsDelta
  <2>3. CASE QueuesRest
    BY <2>1, <2>3 DEF QueuesRest, Welcome, IsDelta
  <2>4. CASE DeltaSent
    <3>1. PICK base \in Nat, changes \in SUBSET Change : Send(base, changes)
      BY <2>4 DEF DeltaSent
    <3>2. /\ \A i \in DOMAIN c2s' : i \in DOMAIN c2s \/ i = Len(c2s')
          /\ \A i \in DOMAIN c2s : c2s'[i] = c2s[i]
          /\ c2s'[Len(c2s')] = Delta(base, changes)
          /\ awaited' = awaited \cup {batches'} /\ batches' = batches + 1
          /\ Len(c2s') = Len(c2s) + 1
      BY <3>1, SendTyped
    <3>3. s2c' = s2c /\ taskRev' = taskRev /\ DOMAIN c2s = 1..Len(c2s) /\ Len(c2s) \in Nat
      BY <2>4, NamedPaths DEF DeltaSent
    <3>4. Delta(base, changes).id \in awaited'
      BY <3>2 DEF Delta
    <3>5. ASSUME NEW i \in DOMAIN c2s, IsDelta(i), c2s[i].id \notin awaited
          PROVE  Welcome(i)' /\ \A j \in DOMAIN c2s' : j < i => c2s'[j].kind # "delta"
      <4>1. Welcome(i) /\ \A j \in DOMAIN c2s : j < i => ~IsDelta(j)
        BY <2>1, <3>5
      <4>2. Len(c2s') > i
        BY <3>2, <3>3
      <4>3. \A j \in DOMAIN c2s' : j < i => j \in DOMAIN c2s
        BY <3>2, <3>3, <4>2
      <4> QED BY <3>2, <3>3, <4>1, <4>3 DEF Welcome, IsDelta
    <3> QED BY <2>1, <3>2, <3>3, <3>4, <3>5 DEF IsDelta
  <2>5. CASE CompleteSent
    <3>1. [kind |-> "complete", base |-> rev] \in Request /\ c2s \in Seq(Request)
      BY DEF Typed, TypeOK, MessagesOK, Request
    <3>2. \A i \in DOMAIN c2s' : c2s'[i].kind = "delta" => i \in DOMAIN c2s /\ c2s'[i] = c2s[i]
      BY <2>5, <3>1 DEF CompleteSent
    <3> QED BY <2>1, <2>5, <3>2 DEF CompleteSent, Welcome, IsDelta
  <2>6. CASE OtherServed
    <3>1. \A i \in DOMAIN c2s' : i \in Nat /\ i + 1 \in DOMAIN c2s /\ c2s'[i] = c2s[i + 1]
      BY <2>6, HeadRequest DEF OtherServed
    <3>2. UNCHANGED <<s2c, awaited, taskRev>>
      BY <2>6 DEF OtherServed
    <3>3. ASSUME NEW i \in DOMAIN c2s', c2s'[i].kind = "delta", c2s'[i].id \notin awaited
          PROVE  Welcome(i)' /\ \A j \in DOMAIN c2s' : j < i => c2s'[j].kind # "delta"
      <4>1. Welcome(i + 1) /\ \A j \in DOMAIN c2s : j < i + 1 => ~IsDelta(j)
        BY <2>1, <3>1, <3>3 DEF IsDelta
      <4>2. \A j \in DOMAIN c2s' : j < i => j + 1 < i + 1
        BY <3>1
      <4> QED BY <3>1, <3>2, <4>1, <4>2 DEF Welcome, IsDelta
    <3> QED BY <2>1, <3>2, <3>3
  <2>7. CASE ServeDelta
    <3>1. /\ 1 \in DOMAIN c2s /\ IsDelta(1) /\ Head(c2s) = c2s[1]
          /\ \A i \in DOMAIN c2s' : i \in Nat /\ i + 1 \in DOMAIN c2s /\ c2s'[i] = c2s[i + 1]
          /\ DOMAIN c2s' = 1..Len(c2s') /\ awaited' = awaited
      BY <2>7, HeadRequest DEF ServeDelta, IsDelta, machine
    <3>2. \A i \in DOMAIN c2s' : c2s'[i].kind = "delta" => c2s'[i].id \in awaited'
      <4> SUFFICES ASSUME NEW i \in DOMAIN c2s', c2s'[i].kind = "delta"
                   PROVE  c2s'[i].id \in awaited
        BY <3>1
      <4>1. IsDelta(i + 1) /\ 1 < i + 1 /\ i + 1 \in DOMAIN c2s
        BY <3>1 DEF IsDelta
      <4> QED BY <2>1, <3>1, <4>1
    <3>3. CASE c2s[1].id \in awaited
      <4>1. PICK code \in Codes, revision \in Nat :
               /\ Len(s2c') = Len(s2c) + 1 /\ Len(s2c) \in Nat
               /\ DOMAIN s2c = 1..Len(s2c) /\ DOMAIN s2c' = 1..Len(s2c')
               /\ \A i \in DOMAIN s2c : s2c'[i] = s2c[i]
               /\ s2c'[Len(s2c')] = Ack(Head(c2s).id, code, revision)
        BY <2>7, AckAppended
      <4>2. s2c'[Len(s2c')].id \in awaited
        BY <3>1, <3>3, <4>1 DEF Ack
      <4>3. \A i \in DOMAIN s2c' : i \in DOMAIN s2c \/ i = Len(s2c')
        BY <4>1
      <4> QED BY <2>1, <3>1, <3>2, <4>1, <4>2, <4>3
    <3>4. CASE c2s[1].id \notin awaited
      <4>1. Welcome(1)
        BY <2>1, <3>1, <3>4
      <4>2. \A i \in DOMAIN s2c' : s2c'[i].code = "ok" \/ (i \in DOMAIN s2c /\ s2c'[i] = s2c[i])
        BY <1>0, <2>7, <4>1, WelcomeAccepted
      <4> QED BY <2>1, <3>1, <3>2, <4>2
    <3> QED BY <3>3, <3>4
  <2>8. CASE AckTaken
    <3>1. /\ s2c # <<>> /\ s2c' = Tail(s2c) /\ taskRev' = taskRev /\ c2s' = c2s
          /\ Accepted(Head(s2c)) \/ Ignored(Head(s2c))
      BY <2>8 DEF AckTaken, ReceiveAck, Accepted, Ignored, server
    <3>2. /\ 1 \in DOMAIN s2c /\ Head(s2c) = s2c[1]
          /\ \A i \in DOMAIN s2c' : i \in Nat /\ i + 1 \in DOMAIN s2c /\ s2c'[i] = s2c[i + 1]
          /\ DOMAIN s2c' = 1..Len(s2c')
      BY <3>1, HeadAck
    <3>3. CASE Ignored(Head(s2c))
      <4>1. awaited' = awaited
        BY <3>3 DEF Ignored
      <4> QED BY <2>1, <3>1, <3>2, <4>1 DEF Welcome, IsDelta
    <3>4. CASE Accepted(Head(s2c))
      <4>1. s2c[1].id = batches /\ batches \in Nat
        BY <2>1, <3>2, <3>4 DEF Accepted, Phases, OneAwaited, Typed, TypeOK
      <4>2. ASSUME NEW i \in DOMAIN s2c' PROVE FALSE
        <5>1. s2c[1].id < s2c[i + 1].id
          BY <1>0, <3>2, <4>2 DEF Ordered, Order
        <5>2. s2c[i + 1].id \in 1..batches
          <6>1. s2c \in Seq(Acks)
            BY DEF Typed, TypeOK, Acks
          <6>2. s2c[i + 1] \in Acks
            BY <3>2, <4>2, <6>1
          <6> QED BY <6>2 DEF Acks
        <5> QED BY <4>1, <5>1, <5>2
      <4>3. ASSUME NEW i \in DOMAIN c2s', c2s'[i].kind = "delta" PROVE FALSE
        <5>1. s2c[1].id < c2s[i].id
          BY <1>0, <3>1, <3>2, <4>3 DEF Ordered, Order, IsDelta
        <5>2. c2s[i].id \in 1..batches
          BY <3>1, <4>3 DEF Typed, MessagesOK, IsDelta
        <5> QED BY <4>1, <5>1, <5>2
      <4> QED BY <4>2, <4>3
    <3> QED BY <3>1, <3>3, <3>4
  <2> QED BY <1>2, <2>3, <2>4, <2>5, <2>6, <2>7, <2>8 DEF StepKind
<1> QED BY <1>0, <1>1, <1>2

LateIsHeard == Reported /\ Claimed /\ Trusted /\ Live /\ Late

LEMMA InitLateIsHeard == Init => LateIsHeard
  BY DEF Init, LateIsHeard, Reported, Claimed, Trusted, Live, Late, Honest

LEMMA LateIsHeardAlways ==
  ASSUME ~Faults
  PROVE  Spec => []LateIsHeard
<1>1. /\ Typed /\ Typed' /\ Phases /\ Phases' /\ Ordered /\ Answers /\ StoreAhead /\ Revisions
      /\ LateIsHeard /\ [Next]_vars
      => LateIsHeard'
  BY StepReported, StepClaimed, StepTrusted, StepLive, StepLate DEF LateIsHeard
<1>2. Spec => [](Typed /\ Phases /\ Ordered /\ Answers /\ StoreAhead /\ Revisions)
  BY TypedAlways, PhasesAlways, OrderedAlways, AnswersAlways, RevisionsAlways, PTL
<1> QED BY <1>1, <1>2, InitLateIsHeard, PTL DEF Spec

(* An ack that nobody waits for any more says "ok".                           *)
LEMMA OnceLateHeeded ==
  ASSUME Typed, Late, ~Faults, Going, timeouts = 1
  PROVE  Heeded
<1> SUFFICES ASSUME ReceiveAck, Ignored(Head(s2c)) PROVE Head(s2c).code = "ok"
  BY DEF Heeded
<1>1. s2c # <<>> /\ s2c' = Tail(s2c)
  BY DEF ReceiveAck
<1>2. 1 \in DOMAIN s2c /\ Head(s2c) = s2c[1]
  BY <1>1, HeadAck
<1> QED BY <1>2 DEF Late, Ignored

LEMMA OnceLateLastWord ==
  ASSUME ~Faults
  PROVE  Spec /\ [][Removed]_vars => [](timeouts <= 1 => LastWord)
<1>1. /\ Typed /\ Phases /\ Answers /\ Knows /\ LateIsHeard /\ (timeouts <= 1 => LastWord)
      /\ [Next]_vars /\ [Removed]_vars
      => (timeouts <= 1 => LastWord)'
  <2> SUFFICES ASSUME Typed, Phases, Answers, Knows, LateIsHeard, timeouts <= 1 => LastWord,
                      [Next]_vars, [Removed]_vars, timeouts' <= 1, Heard'
               PROVE  LastWord'
    BY DEF LastWord
  <2>1. Going /\ timeouts \in Nat /\ timeouts <= 1
    BY WorkSteps DEF Heard, LiveAckLate, Typed, TypeOK
  <2>2. CASE timeouts = 0
    BY <2>1, <2>2, InTimeHeeded, StepLastWord DEF Alive
  <2>3. CASE timeouts = 1
    BY <2>1, <2>3, OnceLateHeeded, StepLastWord DEF LateIsHeard
  <2> QED BY <2>1, <2>2, <2>3
<1> QED BY <1>1, InitLastWord, TypedAlways, PhasesAlways, AnswersAlways, KnowsAlways,
           LateIsHeardAlways, PTL DEF Spec

\* Edits are lost in two places only.  While no file disappears that the
\* watcher never had in its index and no refusal is ignored because it came
\* after ackTimeoutMs, an entry that is served and out of date is on its way to
\* the manifest (noted by the watcher, queued for a flush, in the live batch or
\* on the wire), or its change is one that the watcher has missed (its own scan
\* had not reached the file, or the flush could not read it), or one that
\* stays in the buffer of the initial sync: for any files, uploads in flight,
\* late acks, other writers, wrong hashes, unreadable manifests and faults.
THEOREM SpecStaleIsUnderway ==
  Spec /\ [][Removed]_vars /\ [][Heeded]_vars => []StaleIsUnderway
<1>1. Typed /\ Phases /\ LastWord => StaleIsUnderway
  BY LastWordIsUnderway
<1> QED BY <1>1, TypedAlways, PhasesAlways, LastWordAlways, PTL

\* While acks come in time no refusal is ignored, and a served entry is stale
\* only for a change under way or for one of the two that are lost.
THEOREM SpecStaleIsUnderwayInTime ==
  Spec /\ [][Removed]_vars => [](timeouts = 0 => StaleIsUnderway)
<1>1. Typed /\ Phases /\ (timeouts = 0 => LastWord) => (timeouts = 0 => StaleIsUnderway)
  BY LastWordIsUnderway
<1> QED BY <1>1, TypedAlways, PhasesAlways, InTimeLastWord, PTL

\* Where the store, the manifest, the reading of files and the heartbeats do
\* not fail, one late ack makes no edit lost that was not lost without it,
\* whatever other writers and the scan cache do: the batch it was for is
\* accepted, and the next one, on a revision that is then too low, is refused
\* and ends the client's work.
THEOREM SpecStaleIsUnderwayOnceLate ==
  ASSUME ~Faults
  PROVE  Spec /\ [][Removed]_vars => [](timeouts <= 1 => StaleIsUnderway)
<1>1. Typed /\ Phases /\ (timeouts <= 1 => LastWord) => (timeouts <= 1 => StaleIsUnderway)
  BY LastWordIsUnderway
<1> QED BY <1>1, TypedAlways, PhasesAlways, OnceLateLastWord, PTL

LEMMA NothingRemoved ==
  ASSUME MaxRemoves = 0
  PROVE  Spec => [][Removed]_vars
<1>1. Typed /\ [Next]_vars => [Removed]_vars
  <2> SUFFICES ASSUME Typed, Next PROVE Removed
    BY DEF vars
  <2>1. removes \in Nat /\ newest \in Nat
    BY DEF Typed, TypeOK, Version
  <2>2. ASSUME NEW p \in Paths, Remove(p) PROVE FALSE
    BY <2>1, <2>2 DEF Remove
  <2>3. ASSUME NEW p \in Paths, Edit(p) PROVE Removed
    <3>1. local' = [local EXCEPT ![p] = newest + 1] /\ newest + 1 # 0 /\ local \in [Paths -> Version]
      BY <2>1, <2>3 DEF Edit, Written, Typed, TypeOK
    <3> QED BY <3>1 DEF Removed
  <2>4. local' = local => Removed
    BY DEF Removed
  <2>5. CASE Client \/ Server \/ WatcherFails \/ Sweep \/ OtherWriter
             \/ \E id \in awaited : AckTimeout(id)
    <3>1. local' = local
      BY <2>5 DEF Client, Server, WatcherIndexes, WatcherArms, FlushTimer, Flush, Walk, SendMeta,
         UploadCrashes, UploadFails, Uploaded, PushBuffered, SendComplete, StartWatching, Hash,
         HashFails, SendUpload, Drain, ReceiveAck, ServeDelta, ServeComplete, ServeFault,
         WatcherFails, Sweep, OtherWriter, AckTimeout, disk
    <3> QED BY <2>4, <3>1
  <2> QED BY <2>2, <2>3, <2>5 DEF Next
<1> QED BY <1>1, TypedAlways, PTL DEF Spec

\* With no removals nothing has to be assumed of the user: with one late ack
\* at most, and nothing that fails, a served entry that is out of date is on
\* its way to the manifest, was missed by the watcher because its own scan had
\* not reached the file, or waits in the buffer of the initial sync.
THEOREM SpecEditsAreUnderway ==
  ASSUME MaxRemoves = 0, MaxTimeouts <= 1, ~Faults
  PROVE  Spec => []StaleIsUnderway
<1>1. Spec => [](timeouts <= 1)
  <2>1. Typed /\ timeouts <= 1 /\ [Next]_vars => (timeouts <= 1)'
    <3> SUFFICES ASSUME Typed, timeouts <= 1, [Next]_vars PROVE timeouts' <= 1
      OBVIOUS
    <3>1. CASE \E id \in awaited : AckTimeout(id)
      BY <3>1, ConstantTypes DEF AckTimeout, Typed, TypeOK
    <3>2. CASE ~\E id \in awaited : AckTimeout(id)
      BY <3>2 DEF Next, Client, Server, WatcherIndexes, WatcherArms, FlushTimer, Flush, Walk,
         SendMeta, UploadCrashes, UploadFails, Uploaded, PushBuffered, SendComplete,
         StartWatching, Hash, HashFails, SendUpload, Drain, ReceiveAck, ServeDelta,
         ServeComplete, ServeFault, Edit, Remove, Written, WatcherFails, Sweep, OtherWriter,
         vars, machine
    <3> QED BY <3>1, <3>2
  <2>2. Init => timeouts <= 1
    BY DEF Init
  <2> QED BY <2>1, <2>2, TypedAlways, PTL DEF Spec
<1> QED BY <1>1, NothingRemoved, SpecStaleIsUnderwayOnceLate, PTL

=============================================================================
