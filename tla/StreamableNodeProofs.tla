------------------------ MODULE StreamableNodeProofs ------------------------
(***************************************************************************)
(* Proofs about StreamableNode, for any number of concurrent Opens and any *)
(* time to live of a url.                                                  *)
(***************************************************************************)
EXTENDS StreamableNode, SequenceTheorems, TLAPS

\* Close has begun.
Begun == closer # "idle"

\* What Close has set says how far it is.
FlagInv ==
  /\ nodeClosed <=> Begun
  /\ serviceClosed => Begun
  /\ ~factorySet => Begun

Elements(s) == {s[i] : i \in DOMAIN s}

\* Unless appends have raced, an open handle that was returned before Close is
\* in the list until Close ranges over it, and then among those it will visit.
EarlyInv ==
  ~raced =>
    /\ closer \in {"idle", "service", "factory", "drop", "range"} =>
         early \cap live \subseteq Elements(handles)
    /\ closer = "visit" => early \cap live \subseteq Elements(todo)
    /\ closer = "end" => early \cap live = {}

\* The places a nil handle gets to on its way into the list that Close reads.
NilInv ==
  /\ \A o \in Openers : pc[o] \in {"append", "store"} /\ mine[o] = 0 => Begun /\ overlap
  /\ \A o \in Openers : 0 \in Elements(snapshot[o]) => Begun /\ overlap
  /\ 0 \in Elements(handles) \cup Elements(todo) => Begun /\ overlap
  /\ closer = "crashed" => overlap

\* An Open that is past the check of nodeClosed was inside when Close began.
InsideInv == \A o \in Openers : Begun /\ pc[o] \notin {"idle", "node"} => overlap

\* An Open that stores a url.
Storing(o) == pc[o] \in {"storeBoth", "storeUrl", "storeExpiration"}

\* The expiration of the cache belongs to its url or to an older one, unless an
\* Open has stored the expiration and not yet the url.
UrlInv ==
  /\ expiration <= now + TTL
  /\ \A o \in Openers : Storing(o) => url[o] = now
  /\ \A o \in Openers : pc[o] = "storeExpiration" => cachedUrl = now
  /\ \A o \in Openers : pc[o] = "cached" => expiration > now /\ cachedUrl # NoUrl
  /\ \/ \E o \in Openers : pc[o] = "storeUrl"
     \/ cachedUrl = NoUrl
     \/ expiration <= cachedUrl + TTL

NodeInv ==
  /\ TypeOK /\ FlagInv /\ EarlyInv /\ NilInv /\ InsideInv /\ UrlInv
  /\ BadAnswerOnlyByClose

-----------------------------------------------------------------------------
(* Sequences of handles. *)

LEMMA ElementsAppend ==
  ASSUME NEW S, NEW s \in Seq(S), NEW e \in S
  PROVE  Elements(Append(s, e)) = Elements(s) \cup {e}
<1>1. /\ DOMAIN Append(s, e) = 1..(Len(s) + 1) /\ DOMAIN s = 1..Len(s) /\ Len(s) \in Nat
      /\ \A i \in 1..Len(s) : Append(s, e)[i] = s[i]
      /\ Append(s, e)[Len(s) + 1] = e
  BY AppendProperties, LenProperties
<1>. QED
  BY <1>1 DEF Elements

LEMMA ElementsTail ==
  ASSUME NEW S, NEW s \in Seq(S), s # <<>>
  PROVE  /\ Tail(s) \in Seq(S)
         /\ Head(s) \in Elements(s)
         /\ Elements(s) = {Head(s)} \cup Elements(Tail(s))
<1>1. /\ Tail(s) \in Seq(S) /\ Len(Tail(s)) = Len(s) - 1
      /\ \A i \in 1..Len(Tail(s)) : Tail(s)[i] = s[i + 1]
      /\ Head(s) = s[1]
      /\ Len(s) \in Nat /\ Len(s) # 0
      /\ DOMAIN s = 1..Len(s) /\ DOMAIN Tail(s) = 1..Len(Tail(s))
  BY HeadTailProperties, EmptySeq, LenProperties
<1>2. 1 \in DOMAIN s
  BY <1>1
<1>3. ASSUME NEW i \in DOMAIN s PROVE s[i] = Head(s) \/ s[i] \in Elements(Tail(s))
  <2>1. CASE i = 1
    BY <1>1, <2>1
  <2>2. CASE i # 1
    <3>1. i - 1 \in 1..Len(Tail(s)) /\ (i - 1) + 1 = i
      BY <1>1, <2>2
    <3>2. Tail(s)[i - 1] = s[i]
      BY <1>1, <3>1
    <3>. QED
      BY <1>1, <3>1, <3>2 DEF Elements
  <2>. QED
    BY <2>1, <2>2
<1>4. ASSUME NEW i \in DOMAIN Tail(s) PROVE Tail(s)[i] \in Elements(s)
  <2>1. i + 1 \in DOMAIN s /\ Tail(s)[i] = s[i + 1]
    BY <1>1
  <2>. QED
    BY <2>1 DEF Elements
<1>. QED
  BY <1>1, <1>2, <1>3, <1>4 DEF Elements

LEMMA ElementsEmpty == Elements(<<>>) = {}
  BY DEF Elements

-----------------------------------------------------------------------------
(* Types. *)

LEMMA InitTypes == Init => TypeOK
<1>. SUFFICES ASSUME Init PROVE TypeOK
  OBVIOUS
<1>1. /\ now = 0 /\ cachedUrl = NoUrl /\ expiration = 0 /\ opens = 0 /\ made = 0
      /\ handles = <<>> /\ todo = <<>> /\ live = {} /\ returned = {} /\ early = {}
      /\ closer = "idle" /\ outcome = "none"
  BY DEF Init, UrlInit
<1>2. /\ factoryClosed \in BOOLEAN /\ nodeClosed \in BOOLEAN /\ serviceClosed \in BOOLEAN
      /\ factorySet \in BOOLEAN /\ raced \in BOOLEAN /\ overlap \in BOOLEAN
  BY DEF Init, UrlInit
<1>3. now \in 0..MaxTime /\ opens \in 0..MaxHandles /\ made \in Nat
  BY <1>1, TimeAssumption, HandlesAssumption DEF TimeAssumption, HandlesAssumption
<1>4. /\ pc \in [Openers -> OpenPCs \cup {"idle"}]
      /\ url \in [Openers -> Nat \cup {NoUrl}]
      /\ mine \in [Openers -> 0..made]
      /\ snapshot \in [Openers -> Seq(0..made)]
  BY <1>1 DEF Init
<1>. QED
  BY <1>1, <1>2, <1>3, <1>4 DEF TypeOK

LEMMA OpenKeepsTypes == ASSUME TypeOK, NEW o \in Openers, OpenStep(o) PROVE TypeOK'
<1>1. CASE CallOpen(o)
  <2>1. opens' \in 0..MaxHandles
    BY <1>1, HandlesAssumption DEF CallOpen, TypeOK, HandlesAssumption
  <2>. QED
    BY <1>1, <2>1 DEF CallOpen, Goto, TypeOK, OpenPCs, factoryVars, cacheVars, nodeVars, handleVars,
       closeVars, histVars
<1>2. CASE OpenIsClosed(o) \/ NewLoggerFails(o) \/ FactoryIsNil(o) \/ FactoryIsClosed(o) \/ UrlFails(o)
  <2>1. PICK from, how : how \in {"error", "panic"} /\ Fail(o, from, how)
    BY <1>2 DEF OpenIsClosed, NewLoggerFails, FactoryIsNil, FactoryIsClosed, UrlFails
  <2>2. /\ pc' \in [Openers -> OpenPCs \cup {"idle"}]
        /\ url' \in [Openers -> Nat \cup {NoUrl}]
        /\ outcome' \in {"error", "panic"}
    BY <2>1 DEF Fail, Goto, TypeOK
  <2>. QED
    BY <2>1, <2>2 DEF Fail, TypeOK, factoryVars, cacheVars, nodeVars, handleVars, closeVars, histVars
<1>3. CASE \/ OpenIsOpen(o) \/ ServiceIsOpen(o) \/ FactoryIsOpen(o) \/ CacheHit(o)
           \/ CacheMiss(o)
  <2>1. PICK from, to : to \in OpenPCs /\ Pass(o, from, to)
    BY <1>3 DEF OpenIsOpen, ServiceIsOpen, FactoryIsOpen, CacheHit, CacheMiss, OpenPCs
  <2>2. pc' \in [Openers -> OpenPCs \cup {"idle"}]
    BY <2>1 DEF Pass, Goto, TypeOK
  <2>. QED
    BY <2>1, <2>2 DEF Pass, TypeOK, factoryVars, cacheVars, nodeVars, handleVars, closeVars, histVars
<1>4. CASE ServiceIsClosed(o)
  <2>1. 0 \in 0..made
    BY DEF TypeOK
  <2>. QED
    BY <1>4, <2>1 DEF ServiceIsClosed, Goto, TypeOK, OpenPCs, factoryVars, cacheVars, nodeVars,
       handleVars, closeVars, histVars
<1>5. CASE CacheReturn(o) \/ UrlAnswer(o)
  <2>1. now \in Nat /\ cachedUrl \in Nat \cup {NoUrl}
    BY DEF TypeOK
  <2>2. pc' \in [Openers -> OpenPCs \cup {"idle"}] /\ url' \in [Openers -> Nat \cup {NoUrl}]
    BY <1>5, <2>1 DEF CacheReturn, UrlAnswer, Goto, TypeOK, OpenPCs
  <2>. QED
    <3>1. UNCHANGED <<now, factoryVars, nodeVars, handles, mine, snapshot, outcome, opens,
                      handleVars, returned, closeVars, histVars>>
      BY <1>5 DEF CacheReturn, UrlAnswer
    <3>. QED
      BY <2>2, <3>1 DEF TypeOK, factoryVars, cacheVars, nodeVars, handleVars, closeVars, histVars
<1>6. CASE StoreUrlField(o) \/ StoreExpirationField(o)
  <2>1. now + TTL \in Nat /\ url[o] \in Nat \cup {NoUrl}
    BY TimeAssumption DEF TimeAssumption, TypeOK
  <2>2. pc' \in [Openers -> OpenPCs \cup {"idle"}]
    BY <1>6 DEF StoreUrlField, StoreExpirationField, Goto, TypeOK, OpenPCs
  <2>3. CASE StoreUrlField(o)
    BY <2>1, <2>2, <2>3 DEF StoreUrlField, StoreUrl, TypeOK, factoryVars, cacheVars, nodeVars,
       handleVars, closeVars, histVars
  <2>4. CASE StoreExpirationField(o)
    BY <2>1, <2>2, <2>4 DEF StoreExpirationField, StoreExpiration, TypeOK, factoryVars, cacheVars,
       nodeVars, handleVars, closeVars, histVars
  <2>. QED
    BY <1>6, <2>3, <2>4
<1>7. CASE NewHandle(o)
  <2>1. /\ made' = made + 1 /\ 0..made \subseteq 0..made' /\ 1..made \subseteq 1..made'
        /\ made + 1 \in 1..made'
    BY <1>7 DEF NewHandle, TypeOK
  <2>2. mine' \in [Openers -> 0..made']
    BY <1>7, <2>1 DEF NewHandle, TypeOK
  <2>3. snapshot' \in [Openers -> Seq(0..made')] /\ handles' \in Seq(0..made')
        /\ todo' \in Seq(0..made')
    BY <1>7, <2>1 DEF NewHandle, TypeOK, closeVars
  <2>4. live' \subseteq 1..made'
    BY <1>7, <2>1 DEF NewHandle, TypeOK
  <2>5. made' \in Nat /\ returned' \subseteq 1..made' /\ early' \subseteq returned'
    BY <1>7, <2>1 DEF NewHandle, TypeOK, histVars
  <2>6. pc' \in [Openers -> OpenPCs \cup {"idle"}]
    BY <1>7 DEF NewHandle, Goto, TypeOK, OpenPCs
  <2>. QED
    BY <1>7, <2>2, <2>3, <2>4, <2>5, <2>6 DEF NewHandle, TypeOK, factoryVars, cacheVars, nodeVars,
       closeVars, histVars
<1>8. CASE AppendLoad(o)
  BY <1>8 DEF AppendLoad, Goto, TypeOK, OpenPCs, factoryVars, cacheVars, nodeVars, handleVars,
     closeVars, histVars
<1>9. CASE AppendStore(o)
  <2>1. mine[o] \in 0..made /\ snapshot[o] \in Seq(0..made)
    BY DEF TypeOK
  <2>2. handles' \in Seq(0..made)
    BY <1>9, <2>1, AppendProperties DEF AppendStore
  <2>3. mine[o] # 0 => mine[o] \in 1..made
    BY <2>1 DEF TypeOK
  <2>4. returned' \subseteq 1..made /\ early' \subseteq returned'
    BY <1>9, <2>3 DEF AppendStore, Hand, TypeOK
  <2>5. /\ mine' \in [Openers -> 0..made] /\ snapshot' \in [Openers -> Seq(0..made)]
        /\ url' \in [Openers -> Nat \cup {NoUrl}]
        /\ pc' \in [Openers -> OpenPCs \cup {"idle"}]
    <3>1. 0 \in 0..made /\ <<>> \in Seq(0..made)
      BY DEF TypeOK
    <3>. QED
      BY <1>9, <3>1 DEF AppendStore, Goto, TypeOK
  <2>6. raced' \in BOOLEAN /\ outcome' \in {"handle", "nil"}
    BY <1>9 DEF AppendStore, TypeOK
  <2>. QED
    BY <1>9, <2>2, <2>4, <2>5, <2>6 DEF AppendStore, TypeOK, factoryVars, cacheVars, nodeVars,
       handleVars, closeVars
<1>. QED
  BY <1>1, <1>2, <1>3, <1>4, <1>5, <1>6, <1>7, <1>8, <1>9 DEF OpenStep

LEMMA CloseKeepsTypes == ASSUME TypeOK, CloseStep PROVE TypeOK'
<1>1. CASE CloseVisit
  <2>1. Tail(todo) \in Seq(0..made)
    BY <1>1, ElementsTail DEF CloseVisit, TypeOK
  <2>. QED
    BY <1>1, <2>1 DEF CloseVisit, CloserGoto, TypeOK, factoryVars, cacheVars, nodeVars, openVars
<1>2. CASE CloseFactory
  BY <1>2 DEF CloseFactory, FactoryClose, CloserGoto, TypeOK, cacheVars, nodeVars, openVars
<1>3. CASE CloseCAS
  BY <1>3 DEF CloseCAS, CloserGoto, TypeOK, factoryVars, cacheVars, openVars
<1>4. CASE CloseService
  BY <1>4 DEF CloseService, CloserGoto, TypeOK, factoryVars, cacheVars, nodeVars, openVars
<1>5. CASE CloseDropFactory
  BY <1>5 DEF CloseDropFactory, CloserGoto, TypeOK, factoryVars, cacheVars, nodeVars, openVars
<1>6. CASE CloseRange
  BY <1>6 DEF CloseRange, CloserGoto, TypeOK, factoryVars, cacheVars, nodeVars, openVars
<1>7. CASE CloseVisitNil
  BY <1>7 DEF CloseVisitNil, CloserGoto, TypeOK, factoryVars, cacheVars, nodeVars, openVars
<1>8. CASE CloseEnd
  BY <1>8 DEF CloseEnd, CloserGoto, TypeOK, factoryVars, cacheVars, nodeVars, openVars
<1>. QED
  BY <1>1, <1>2, <1>3, <1>4, <1>5, <1>6, <1>7, <1>8 DEF CloseStep

\* The kernel and the clock.
LEMMA OthersKeepTypes ==
  ASSUME TypeOK, Tick \/ \E h \in Handles : Release(h)
  PROVE  TypeOK'
<1>1. CASE Tick
  <2>1. now' \in 0..MaxTime
    BY <1>1, TimeAssumption DEF Tick, TypeOK, TimeAssumption
  <2>. QED
    BY <1>1, <2>1 DEF Tick, TypeOK, factoryVars, cacheVars, nodeVars, openVars, handleVars,
       closeVars, histVars
<1>2. ASSUME NEW h \in Handles, Release(h) PROVE TypeOK'
  BY <1>2 DEF Release, TypeOK, factoryVars, cacheVars, nodeVars, openVars, closeVars, histVars
<1>. QED
  BY <1>1, <1>2

-----------------------------------------------------------------------------
(* Close and the handles returned before it. *)

\* What a step of an Open, but for its append, leaves to Close.
LEMMA OpenLeaves ==
  ASSUME NEW o \in Openers, OpenStep(o)
  PROVE  /\ UNCHANGED <<now, nodeVars, closeVars, overlap>>
         /\ AppendStore(o) \/ UNCHANGED <<handles, returned, raced, early>>
         /\ NewHandle(o) \/ UNCHANGED <<made, live>>
  BY DEF OpenStep, CallOpen, OpenIsClosed, OpenIsOpen, ServiceIsClosed, ServiceIsOpen, NewLoggerFails, FactoryIsNil,
     FactoryIsClosed, FactoryIsOpen, CacheHit, CacheMiss, CacheReturn, UrlAnswer, UrlFails,
     StoreUrlField, StoreExpirationField, NewHandle, AppendLoad, AppendStore, Fail, Pass,
     handleVars, histVars

LEMMA FlagsStay ==
  ASSUME FlagInv, Next PROVE FlagInv'
<1>1. ASSUME NEW o \in Openers, OpenStep(o) PROVE FlagInv'
  BY <1>1, OpenLeaves DEF FlagInv, Begun, nodeVars, closeVars
<1>2. CASE CloseStep
  BY <1>2 DEF CloseStep, CloseCAS, CloseService, CloseFactory, CloseDropFactory, CloseRange,
     CloseVisit, CloseVisitNil, CloseEnd, CloserGoto, FlagInv, Begun, nodeVars
<1>3. CASE Tick \/ Rest \/ \E h \in Handles : Release(h)
  BY <1>3 DEF Tick, Rest, Release, vars, FlagInv, Begun, nodeVars, closeVars
<1>. QED
  BY <1>1, <1>2, <1>3 DEF Next

LEMMA StoreElements ==
  ASSUME TypeOK, NEW o \in Openers, AppendStore(o)
  PROVE  Elements(handles') = Elements(snapshot[o]) \cup {mine[o]}
<1>. DEFINE S == 0..made
<1>1. snapshot[o] \in Seq(S) /\ mine[o] \in S
  BY DEF TypeOK
<1>. HIDE DEF S
<1>2. Elements(Append(snapshot[o], mine[o])) = Elements(snapshot[o]) \cup {mine[o]}
  <2>1. \A s \in Seq(S) : \A e \in S : Elements(Append(s, e)) = Elements(s) \cup {e}
    BY ElementsAppend
  <2>. QED
    BY <1>1, <2>1
<1>3. handles' = Append(snapshot[o], mine[o])
  BY DEF AppendStore
<1>4. Elements(handles') = Elements(Append(snapshot[o], mine[o]))
  BY <1>3 DEF Elements
<1>. QED
  BY <1>2, <1>4

LEMMA OpenKeepsEarly ==
  ASSUME TypeOK, FlagInv, EarlyInv, NEW o \in Openers, OpenStep(o)
  PROVE  EarlyInv'
<1>1. CASE AppendStore(o)
  <2>. SUFFICES ASSUME ~raced' PROVE EarlyInv'
    BY DEF EarlyInv
  <2>1. ~raced /\ handles = snapshot[o]
    BY <1>1 DEF AppendStore
  <2>2. Elements(handles') = Elements(handles) \cup {mine[o]}
    BY <1>1, <2>1, StoreElements
  <2>3. UNCHANGED <<closer, todo, live>>
    BY <1>1, OpenLeaves DEF closeVars, AppendStore, handleVars
  <2>4. CASE Begun
    <3>1. early' = early
      BY <1>1, <2>4 DEF AppendStore, Hand, FlagInv
    <3>. QED
      BY <2>1, <2>2, <2>3, <3>1 DEF EarlyInv
  <2>5. CASE ~Begun
    <3>1. early' \subseteq early \cup {mine[o]}
      BY <1>1, <2>5 DEF AppendStore, Hand, FlagInv
    <3>. QED
      BY <2>1, <2>2, <2>3, <2>5, <3>1 DEF EarlyInv, Begun
  <2>. QED
    BY <2>4, <2>5
<1>2. CASE NewHandle(o)
  <2>1. made + 1 \notin early
    BY DEF TypeOK
  <2>2. early' \cap live' = early \cap live
    BY <1>2, <2>1 DEF NewHandle, histVars
  <2>. QED
    BY <1>2, <2>2 DEF NewHandle, EarlyInv, closeVars, histVars
<1>3. CASE UNCHANGED <<handles, raced, early, live, closeVars>>
  BY <1>3 DEF EarlyInv, closeVars
<1>. QED
  BY <1>1, <1>2, <1>3, OpenLeaves

LEMMA CloseKeepsEarly ==
  ASSUME TypeOK, EarlyInv, CloseStep PROVE EarlyInv'
<1>1. UNCHANGED <<handles, raced, early>>
  BY DEF CloseStep, CloseCAS, CloseService, CloseFactory, CloseDropFactory, CloseRange, CloseVisit,
     CloseVisitNil, CloseEnd, CloserGoto
<1>2. CASE CloseVisit
  <2>1. Elements(todo) = {Head(todo)} \cup Elements(todo')
    BY <1>2, ElementsTail DEF CloseVisit, TypeOK
  <2>2. live' = live \ {Head(todo)} /\ closer = "visit" /\ closer' = "visit"
    BY <1>2 DEF CloseVisit, CloserGoto
  <2>. QED
    BY <1>1, <2>1, <2>2 DEF EarlyInv
<1>3. CASE CloseEnd
  BY <1>1, <1>3, ElementsEmpty DEF CloseEnd, CloserGoto, EarlyInv
<1>4. CASE \/ CloseCAS \/ CloseService \/ CloseFactory \/ CloseDropFactory \/ CloseRange
           \/ CloseVisitNil
  BY <1>1, <1>4 DEF CloseCAS, CloseService, CloseFactory, CloseDropFactory, CloseRange,
     CloseVisitNil, CloserGoto, EarlyInv
<1>. QED
  BY <1>2, <1>3, <1>4 DEF CloseStep

LEMMA OthersKeepEarly ==
  ASSUME EarlyInv, Tick \/ \E h \in Handles : Release(h)
  PROVE  EarlyInv'
<1>1. UNCHANGED <<handles, raced, early, closer, todo>> /\ live' \subseteq live
  BY DEF Tick, Release, handleVars, closeVars, histVars
<1>. QED
  BY <1>1 DEF EarlyInv

-----------------------------------------------------------------------------
(* Nil handles. *)

\* A nil handle comes only from a service that is closed, and only to an Open
\* that was inside when Close began.
LEMMA OpenKeepsNil ==
  ASSUME TypeOK, FlagInv, NilInv, InsideInv, NEW o \in Openers, OpenStep(o)
  PROVE  NilInv' /\ InsideInv'
<1>1. UNCHANGED <<closer, todo, overlap, nodeClosed>>
  BY OpenLeaves DEF closeVars, nodeVars
<1>2. \A p \in Openers \ {o} :
        pc'[p] = pc[p] /\ mine'[p] = mine[p] /\ snapshot'[p] = snapshot[p]
  BY DEF OpenStep, CallOpen, OpenIsClosed, OpenIsOpen, ServiceIsClosed, ServiceIsOpen, NewLoggerFails, FactoryIsNil,
     FactoryIsClosed, FactoryIsOpen, CacheHit, CacheMiss, CacheReturn, UrlAnswer, UrlFails,
     StoreUrlField, StoreExpirationField, NewHandle, AppendLoad, AppendStore, Fail, Pass, Goto,
     TypeOK
<1>3. Begun /\ pc'[o] \notin {"idle", "node"} => overlap
  BY DEF OpenStep, CallOpen, OpenIsClosed, OpenIsOpen, ServiceIsClosed, ServiceIsOpen, NewLoggerFails, FactoryIsNil,
     FactoryIsClosed, FactoryIsOpen, CacheHit, CacheMiss, CacheReturn, UrlAnswer, UrlFails,
     StoreUrlField, StoreExpirationField, NewHandle, AppendLoad, AppendStore, Fail, Pass, Goto,
     TypeOK, InsideInv, FlagInv
<1>4. InsideInv'
  BY <1>1, <1>2, <1>3 DEF InsideInv, Begun
<1>5. /\ pc'[o] \in {"append", "store"} /\ mine'[o] = 0 => Begun /\ overlap
      /\ 0 \in Elements(snapshot'[o]) => Begun /\ overlap
      /\ 0 \in Elements(handles') => Begun /\ overlap
  <2>1. CASE AppendLoad(o)
    BY <2>1 DEF AppendLoad, Goto, NilInv, TypeOK
  <2>2. CASE AppendStore(o)
    <3>1. Elements(handles') = Elements(snapshot[o]) \cup {mine[o]}
      BY <2>2, StoreElements
    <3>2. pc[o] = "store" /\ pc'[o] = "idle" /\ snapshot'[o] = <<>>
      BY <2>2 DEF AppendStore, Goto, TypeOK
    <3>. QED
      BY <3>1, <3>2, ElementsEmpty DEF NilInv
  <2>3. CASE NewHandle(o)
    <3>1. made + 1 # 0
      BY DEF TypeOK
    <3>. QED
      BY <2>3, <3>1 DEF NewHandle, NilInv, TypeOK
  <2>4. CASE ServiceIsClosed(o)
    BY <2>4 DEF ServiceIsClosed, Goto, NilInv, InsideInv, FlagInv, TypeOK
  <2>5. CASE \/ CallOpen(o) \/ OpenIsClosed(o) \/ OpenIsOpen(o) \/ ServiceIsOpen(o)
             \/ NewLoggerFails(o) \/ FactoryIsNil(o) \/ FactoryIsClosed(o) \/ FactoryIsOpen(o)
             \/ CacheHit(o) \/ CacheMiss(o) \/ CacheReturn(o)
             \/ UrlAnswer(o) \/ UrlFails(o) \/ StoreUrlField(o) \/ StoreExpirationField(o)
    <3>1. UNCHANGED <<mine, snapshot, handles>> /\ pc'[o] \notin {"append", "store"}
      BY <2>5 DEF CallOpen, OpenIsClosed, OpenIsOpen, ServiceIsOpen, NewLoggerFails, FactoryIsNil, FactoryIsClosed,
         FactoryIsOpen, CacheHit, CacheMiss, CacheReturn, UrlAnswer, UrlFails, StoreUrlField,
         StoreExpirationField, Fail, Pass, Goto, TypeOK
    <3>. QED
      BY <3>1 DEF NilInv
  <2>. QED
    BY <2>1, <2>2, <2>3, <2>4, <2>5 DEF OpenStep
<1>6. NilInv'
  BY <1>1, <1>2, <1>5 DEF NilInv, Begun
<1>. QED
  BY <1>4, <1>6

LEMMA CloseKeepsNil ==
  ASSUME TypeOK, NilInv, InsideInv, CloseStep
  PROVE  NilInv' /\ InsideInv'
<1>1. UNCHANGED <<pc, mine, snapshot, handles>> /\ Begun'
  BY DEF CloseStep, CloseCAS, CloseService, CloseFactory, CloseDropFactory, CloseRange, CloseVisit,
     CloseVisitNil, CloseEnd, CloserGoto, openVars, Begun
<1>2. CASE CloseCAS
  <2>1. ~Begun /\ todo' = todo /\ closer' # "crashed"
    BY <1>2 DEF CloseCAS, CloserGoto, Begun
  <2>2. overlap' = \E o \in Openers : pc[o] # "idle"
    BY <1>2 DEF CloseCAS
  <2>. QED
    BY <1>1, <2>1, <2>2 DEF NilInv, InsideInv
<1>3. CASE ~CloseCAS
  <2>1. Begun /\ overlap' = overlap
    BY <1>3 DEF CloseStep, CloseService, CloseFactory, CloseDropFactory, CloseRange, CloseVisit,
       CloseVisitNil, CloseEnd, CloserGoto, Begun
  <2>2. 0 \in Elements(todo') => 0 \in Elements(handles) \cup Elements(todo)
    <3>1. CASE CloseVisit
      BY <3>1, ElementsTail DEF CloseVisit, TypeOK
    <3>2. CASE ~CloseVisit
      BY <1>3, <3>2 DEF CloseStep, CloseService, CloseFactory, CloseDropFactory, CloseRange,
         CloseVisitNil, CloseEnd
    <3>. QED
      BY <3>1, <3>2
  <2>3. closer' = "crashed" => 0 \in Elements(todo)
    <3>1. CASE CloseVisitNil
      BY <3>1, ElementsTail DEF CloseVisitNil, TypeOK
    <3>2. CASE ~CloseVisitNil
      BY <1>3, <3>2 DEF CloseStep, CloseService, CloseFactory, CloseDropFactory, CloseRange,
         CloseVisit, CloseEnd, CloserGoto
    <3>. QED
      BY <3>1, <3>2
  <2>. QED
    BY <1>1, <2>1, <2>2, <2>3 DEF NilInv, InsideInv
<1>. QED
  BY <1>2, <1>3

LEMMA AnswersStay ==
  ASSUME TypeOK, FlagInv, NilInv, BadAnswerOnlyByClose, Next
  PROVE  BadAnswerOnlyByClose'
<1>1. ASSUME NEW o \in Openers, OpenStep(o) PROVE BadAnswerOnlyByClose'
  <2>1. nodeClosed' = nodeClosed
    BY <1>1, OpenLeaves DEF nodeVars
  <2>2. CASE AppendStore(o)
    BY <2>1, <2>2 DEF AppendStore, Goto, BadAnswerOnlyByClose, FlagInv, NilInv
  <2>3. CASE ~AppendStore(o)
    BY <1>1, <2>1, <2>3 DEF OpenStep, CallOpen, OpenIsClosed, OpenIsOpen, ServiceIsClosed,
       ServiceIsOpen, NewLoggerFails, FactoryIsNil, FactoryIsClosed, FactoryIsOpen, CacheHit, CacheMiss, CacheReturn,
       UrlAnswer, UrlFails, StoreUrlField, StoreExpirationField, NewHandle, AppendLoad, Fail, Pass,
       BadAnswerOnlyByClose, FlagInv
  <2>. QED
    BY <2>2, <2>3
<1>2. CASE CloseStep
  BY <1>2 DEF CloseStep, CloseCAS, CloseService, CloseFactory, CloseDropFactory, CloseRange,
     CloseVisit, CloseVisitNil, CloseEnd, CloserGoto, BadAnswerOnlyByClose, openVars, nodeVars
<1>3. CASE Tick \/ Rest \/ \E h \in Handles : Release(h)
  BY <1>3 DEF Tick, Rest, Release, vars, BadAnswerOnlyByClose, openVars, nodeVars
<1>. QED
  BY <1>1, <1>2, <1>3 DEF Next

-----------------------------------------------------------------------------
(* The cached url. *)

\* The Open steps that neither reach nor leave a place where a url is stored or
\* has been found fresh.
LEMMA QuietKeepsUrl ==
  ASSUME TypeOK, UrlInv, NEW o \in Openers, NEW to,
         UNCHANGED <<now, cacheVars>>,
         pc' = [pc EXCEPT ![o] = to],
         pc[o] \notin {"storeBoth", "storeUrl", "storeExpiration"},
         to \notin {"cached", "storeBoth", "storeUrl", "storeExpiration"},
         \A p \in Openers \ {o} : url'[p] = url[p]
  PROVE  UrlInv'
<1>1. \A p \in Openers : pc'[p] = IF p = o THEN to ELSE pc[p]
  BY DEF TypeOK
<1>2. now' = now /\ expiration' = expiration /\ cachedUrl' = cachedUrl
  BY DEF cacheVars
<1>3. \A p \in Openers : Storing(p)' => p # o /\ Storing(p)
  BY <1>1 DEF Storing
<1>4. \A p \in Openers : pc[p] = "storeUrl" => pc'[p] = "storeUrl"
  BY <1>1
<1>. QED
  BY <1>1, <1>2, <1>3, <1>4 DEF UrlInv

LEMMA OpenKeepsUrl ==
  ASSUME TypeOK, UrlInv, NEW o \in Openers, OpenStep(o)
  PROVE  UrlInv'
<1>. USE TimeAssumption DEF TimeAssumption
<1>1. now \in Nat /\ expiration \in Nat /\ cachedUrl \in Nat \cup {NoUrl} /\ now' = now
  BY OpenLeaves DEF TypeOK
<1>2. CASE StoreUrlField(o)
  <2>1. cachedUrl' = now /\ expiration' = expiration /\ url' = url
    BY <1>2 DEF StoreUrlField, StoreUrl, Goto, UrlInv, Storing
  <2>2. \A p \in Openers : /\ Storing(p)' => Storing(p)
                           /\ pc'[p] = "cached" => pc[p] = "cached"
    BY <1>2 DEF StoreUrlField, Goto, TypeOK, Storing
  <2>. QED
    BY <1>1, <2>1, <2>2 DEF UrlInv
<1>3. CASE StoreExpirationField(o)
  <2>1. expiration' = now + TTL /\ cachedUrl' = cachedUrl /\ url' = url
    BY <1>3 DEF StoreExpirationField, StoreExpiration
  <2>2. \A p \in Openers : /\ Storing(p)' => Storing(p)
                           /\ pc'[p] = "cached" => pc[p] = "cached"
                           /\ pc'[p] = "storeExpiration" => pc[p] = "storeExpiration"
    BY <1>3 DEF StoreExpirationField, Goto, TypeOK, Storing
  <2>3. pc'[o] = "storeUrl" \/ cachedUrl = now
    BY <1>3 DEF StoreExpirationField, Goto, TypeOK, UrlInv
  <2>. QED
    BY <1>1, <2>1, <2>2, <2>3 DEF UrlInv
<1>4. CASE CacheHit(o)
  <2>1. \A p \in Openers : pc'[p] = IF p = o THEN "cached" ELSE pc[p]
    BY <1>4 DEF CacheHit, Pass, Goto, TypeOK
  <2>2. UNCHANGED <<cachedUrl, expiration, url>> /\ CacheIsFresh /\ pc[o] = "cache"
    BY <1>4 DEF CacheHit, Pass, Goto, factoryVars, cacheVars
  <2>. QED
    BY <1>1, <2>1, <2>2 DEF UrlInv, Storing, CacheIsFresh
<1>5. CASE UrlAnswer(o)
  <2>1. \A p \in Openers : /\ pc'[p] = IF p = o THEN "storeBoth" ELSE pc[p]
                           /\ url'[p] = IF p = o THEN now ELSE url[p]
    BY <1>5 DEF UrlAnswer, Goto, TypeOK
  <2>2. UNCHANGED <<cachedUrl, expiration>> /\ pc[o] = "rpc"
    BY <1>5 DEF UrlAnswer, Goto, factoryVars, cacheVars
  <2>. QED
    BY <1>1, <2>1, <2>2 DEF UrlInv, Storing
<1>6. ASSUME NEW from \in {"node", "service", "factory", "rpc"}, NEW how, Fail(o, from, how)
      PROVE  UrlInv'
  BY <1>6, QuietKeepsUrl DEF Fail, Goto, TypeOK, factoryVars
<1>7. ASSUME NEW from \in {"node", "service", "factory", "cache"},
             NEW to \in {"service", "factory", "cache", "rpc"}, Pass(o, from, to)
      PROVE  UrlInv'
  BY <1>7, QuietKeepsUrl DEF Pass, Goto, TypeOK, factoryVars
<1>8. CASE CallOpen(o) \/ ServiceIsClosed(o) \/ CacheReturn(o) \/ NewHandle(o)
  BY <1>8, QuietKeepsUrl DEF CallOpen, ServiceIsClosed, CacheReturn, NewHandle, Goto, TypeOK,
     factoryVars
<1>9. CASE AppendLoad(o) \/ AppendStore(o)
  BY <1>9, QuietKeepsUrl DEF AppendLoad, AppendStore, Goto, TypeOK, factoryVars
<1>10. CASE OpenIsClosed(o) \/ NewLoggerFails(o) \/ FactoryIsNil(o) \/ FactoryIsClosed(o) \/ UrlFails(o)
  BY <1>6, <1>10 DEF OpenIsClosed, NewLoggerFails, FactoryIsNil, FactoryIsClosed, UrlFails
<1>11. CASE OpenIsOpen(o) \/ ServiceIsOpen(o) \/ FactoryIsOpen(o) \/ CacheMiss(o)
  BY <1>7, <1>11 DEF OpenIsOpen, ServiceIsOpen, FactoryIsOpen, CacheMiss
<1>. QED
  BY <1>2, <1>3, <1>4, <1>5, <1>8, <1>9, <1>10, <1>11 DEF OpenStep

LEMMA CloseKeepsUrl ==
  ASSUME UrlInv, CloseStep \/ \E h \in Handles : Release(h)
  PROVE  UrlInv'
<1>1. UNCHANGED <<now, cachedUrl, expiration, pc, url>>
  BY DEF CloseStep, CloseCAS, CloseService, CloseFactory, CloseDropFactory, CloseRange, CloseVisit,
     CloseVisitNil, CloseEnd, CloserGoto, FactoryClose, Release, openVars, factoryVars, cacheVars
<1>. QED
  BY <1>1 DEF UrlInv, Storing

LEMMA TickKeepsUrl == ASSUME TypeOK, UrlInv, Tick PROVE UrlInv'
<1>1. now' = now + 1 /\ UNCHANGED <<cachedUrl, expiration, pc, url>>
  BY DEF Tick, factoryVars, cacheVars, openVars
<1>2. \A p \in Openers : pc[p] \notin {"cached", "storeBoth", "storeUrl", "storeExpiration"}
  BY DEF Tick
<1>. QED
  BY <1>1, <1>2, TimeAssumption DEF UrlInv, Storing, TypeOK, TimeAssumption

-----------------------------------------------------------------------------
(* The invariant and what follows from it. *)

LEMMA InitInv == Init => NodeInv
<1>. SUFFICES ASSUME Init PROVE NodeInv
  OBVIOUS
<1>1. /\ now = 0 /\ cachedUrl = NoUrl /\ expiration = 0 /\ handles = <<>> /\ todo = <<>>
      /\ nodeClosed = FALSE /\ serviceClosed = FALSE /\ factorySet = TRUE
      /\ live = {} /\ early = {} /\ closer = "idle" /\ outcome = "none"
      /\ \A o \in Openers : pc[o] = "idle" /\ snapshot[o] = <<>>
  BY DEF Init, UrlInit
<1>2. FlagInv /\ EarlyInv /\ InsideInv /\ BadAnswerOnlyByClose
  BY <1>1 DEF FlagInv, EarlyInv, InsideInv, BadAnswerOnlyByClose, Begun
<1>3. NilInv
  BY <1>1, ElementsEmpty DEF NilInv
<1>4. UrlInv
  BY <1>1, TimeAssumption DEF UrlInv, Storing, TimeAssumption
<1>. QED
  BY <1>2, <1>3, <1>4, InitTypes DEF NodeInv

LEMMA StepInv == NodeInv /\ [Next]_vars => NodeInv'
<1>. SUFFICES ASSUME NodeInv, [Next]_vars PROVE NodeInv'
  OBVIOUS
<1>. USE DEF NodeInv
<1>1. ASSUME NEW o \in Openers, OpenStep(o), Next PROVE NodeInv'
  BY <1>1, OpenKeepsTypes, FlagsStay, OpenKeepsEarly, OpenKeepsNil, OpenKeepsUrl, AnswersStay
<1>2. CASE CloseStep /\ Next
  BY <1>2, CloseKeepsTypes, FlagsStay, CloseKeepsEarly, CloseKeepsNil, CloseKeepsUrl, AnswersStay
<1>3. CASE (Tick \/ \E h \in Handles : Release(h)) /\ Next
  <2>1. NilInv' /\ InsideInv'
    <3>1. UNCHANGED <<pc, mine, snapshot, handles, todo, closer, overlap>>
      BY <1>3 DEF Tick, Release, openVars, closeVars, histVars
    <3>. QED
      BY <3>1 DEF NilInv, InsideInv, Begun, Elements
  <2>. QED
    BY <1>3, <2>1, OthersKeepTypes, FlagsStay, OthersKeepEarly, CloseKeepsUrl, TickKeepsUrl,
       AnswersStay
<1>4. CASE UNCHANGED vars
  BY <1>4 DEF vars, factoryVars, cacheVars, nodeVars, openVars, handleVars, closeVars, histVars,
     TypeOK, FlagInv, EarlyInv, NilInv, InsideInv, UrlInv, Storing, Begun, Elements,
     BadAnswerOnlyByClose
<1>. QED
  BY <1>1, <1>2, <1>3, <1>4 DEF Next, Rest

LEMMA Inductive == Spec => []NodeInv
  BY InitInv, StepInv, PTL DEF Spec

\* Every variable of the node, of its handle service and of its url cache keeps
\* its type, however many Opens run at once (streamable/node/main.go).
THEOREM NodeTyping == Spec => []TypeOK
  BY Inductive, PTL DEF NodeInv

\* A Close that has run to its end leaves no stream of a handle open that was
\* returned before it began, unless two appends have raced
\* (streamable/node/main.go, Open and Close).
THEOREM CloseReaches == Spec => []CloseReachesHandles
<1>1. NodeInv => CloseReachesHandles
  BY DEF NodeInv, EarlyInv, CloseReachesHandles
<1>. QED
  BY Inductive, <1>1, PTL

\* An Open answers with nil, or panics, only when Close has begun
\* (streamable/handle/service/main.go, New).
THEOREM BadAnswersAreLate == Spec => []BadAnswerOnlyByClose
  BY Inductive, PTL DEF NodeInv

\* Close ends the process on a nil handle only when an Open was inside the node
\* as it began (streamable/node/main.go, Close).
THEOREM CrashNeedsOverlap == Spec => []CrashOnlyByOverlap
<1>1. NodeInv => CrashOnlyByOverlap
  BY DEF NodeInv, NilInv, CrashOnlyByOverlap
<1>. QED
  BY Inductive, <1>1, PTL

\* What is nil to a caller of Open, or to Close, comes from their overlap
\* (streamable/node/main.go, Open and Close).
THEOREM FaultsNeedClose == Spec => []FaultsOnlyByClose
  BY BadAnswersAreLate, CrashNeedsOverlap, PTL DEF FaultsOnlyByClose

\* A url from the cache is younger than the time to live, unless another Open
\* has stored its expiration and not yet the url (stream/factory/main.go,
\* getStreamUrl).
THEOREM OldUrlNeedsRace == Spec => OldUrlOnlyByRace
<1>1. NodeInv /\ [Next]_vars =>
        [\A o \in Openers : pc[o] = "cached" /\ pc'[o] = "handle" =>
           cachedUrl + TTL > now \/ \E p \in Openers : pc[p] = "storeUrl"]_vars
  <2>. SUFFICES ASSUME NodeInv, NEW o \in Openers, pc[o] = "cached",
                       ~\E p \in Openers : pc[p] = "storeUrl"
                PROVE  cachedUrl + TTL > now
    OBVIOUS
  <2>1. now \in Nat /\ expiration \in Nat /\ cachedUrl \in Nat \cup {NoUrl}
    BY DEF NodeInv, TypeOK
  <2>. QED
    BY <2>1, TimeAssumption DEF NodeInv, UrlInv, TimeAssumption
<1>. QED
  BY Inductive, <1>1, PTL DEF Spec, OldUrlOnlyByRace

-----------------------------------------------------------------------------
(* The promise of a list. *)

LEMMA OpenIsList ==
  ASSUME NodeInv, Running, NEW o \in Openers, OpenStep(o)
  PROVE  List!Next \/ UNCHANGED List!listVars
<1>1. phaseBar # "crashed" /\ (phaseBar = "open" <=> ~nodeClosed)
  BY DEF Running, phaseBar, NodeInv, FlagInv, Begun, TypeOK
<1>2. UNCHANGED phaseBar
  BY OpenLeaves DEF phaseBar, closeVars
<1>3. CASE AppendStore(o)
  <2>1. UNCHANGED <<made, live>> /\ (raced => raced')
    BY <1>3 DEF AppendStore, handleVars
  <2>2. early' = IF nodeClosed THEN early ELSE early \cup ({mine[o]} \ {0})
    BY <1>3 DEF AppendStore, Hand
  <2>. QED
    BY <1>1, <1>2, <2>1, <2>2 DEF List!Next, List!Give, List!Miss, List!listVars
<1>4. CASE NewHandle(o)
  <2>1. UNCHANGED <<early, raced>> /\ made' = made + 1 /\ live' = live \cup {made + 1}
    BY <1>4 DEF NewHandle, histVars
  <2>2. ((1..made) \ live)' = (1..made) \ live
    BY <2>1 DEF NodeInv, TypeOK
  <2>. QED
    BY <1>2, <2>1, <2>2 DEF List!listVars
<1>5. CASE ~AppendStore(o) /\ ~NewHandle(o)
  BY <1>2, <1>5, OpenLeaves DEF List!listVars
<1>. QED
  BY <1>3, <1>4, <1>5

LEMMA CloseIsList ==
  ASSUME NodeInv, CloseStep
  PROVE  List!Next \/ UNCHANGED List!listVars
<1>1. UNCHANGED <<early, raced, made>>
  BY DEF CloseStep, CloseCAS, CloseService, CloseFactory, CloseDropFactory, CloseRange,
     CloseVisit, CloseVisitNil, CloseEnd, CloserGoto
<1>2. CASE CloseCAS
  BY <1>1, <1>2 DEF CloseCAS, CloserGoto, phaseBar, List!Next, List!Begin
<1>3. CASE CloseService \/ CloseFactory \/ CloseDropFactory \/ CloseRange
  BY <1>1, <1>3 DEF CloseService, CloseFactory, CloseDropFactory, CloseRange, CloserGoto,
     phaseBar, List!listVars
<1>4. CASE CloseVisit
  BY <1>1, <1>4 DEF CloseVisit, CloserGoto, phaseBar, List!Next, List!Shut
<1>5. CASE CloseVisitNil
  BY <1>1, <1>5 DEF CloseVisitNil, CloserGoto, phaseBar, List!Next, List!Crash
<1>6. CASE CloseEnd
  <2>1. raced \/ early \cap live = {}
    BY <1>6, ElementsEmpty DEF CloseEnd, CloserGoto, NodeInv, EarlyInv
  <2>2. early \subseteq 1..made
    BY DEF NodeInv, TypeOK
  <2>. QED
    BY <1>1, <1>6, <2>1, <2>2 DEF CloseEnd, CloserGoto, phaseBar, List!Next, List!End
<1>. QED
  BY <1>2, <1>3, <1>4, <1>5, <1>6 DEF CloseStep

\* The node of a video file keeps the promise of a list of handles.
THEOREM NodeImplementsList == Spec => ImplementsClosedList
<1>1. Init => List!Init
  BY DEF Init, List!Init, phaseBar
<1>2. NodeInv /\ [Next]_vars => [List!Next]_List!listVars
  <2>. SUFFICES ASSUME NodeInv, [Next]_vars PROVE List!Next \/ UNCHANGED List!listVars
    OBVIOUS
  <2>1. CASE UNCHANGED vars \/ Tick
    BY <2>1 DEF Tick, vars, closeVars, handleVars, histVars, phaseBar, List!listVars
  <2>2. CASE Running /\ \E h \in Handles : Release(h)
    <3>1. UNCHANGED <<phaseBar, early, raced, made>> /\ live' \subseteq live
      BY <2>2 DEF Release, closeVars, histVars, phaseBar
    <3>2. phaseBar # "crashed"
      BY <2>2 DEF Running, phaseBar
    <3>. QED
      BY <3>1, <3>2 DEF List!Next, List!Shut
  <2>. QED
    BY <2>1, <2>2, OpenIsList, CloseIsList DEF Next, Rest
<1>. QED
  BY <1>1, <1>2, Inductive, PTL DEF Spec, ImplementsClosedList, List!ListSpec

=============================================================================
