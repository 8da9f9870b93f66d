-------------------------- MODULE Resolver_proofs ---------------------------
(***************************************************************************)
(* Machine-checked facts about Resolver, for any number of resolvers and    *)
(* servers and all settings.                                                *)
(***************************************************************************)
EXTENDS Resolver, FiniteSetTheorems, TLAPS

\* What TypeOK says of a call.
CallSet ==
    [at : InPool \union {"idle", "lookup", "request", "answered", "failed", "system"},
     op : Ops, type : Types \union {"HTTPS"}, found : BOOLEAN, start : 0 .. setting.servers - 1,
     offset : 0 .. setting.servers - 1, try : 0 .. 3, whole : BOOLEAN]

WarmSet == [at : {"on", "late", "done"}, left : Nat, used : 0 .. Sem]

\* The setting, the servers and the cache.
DohInv ==
    /\ setting \in Settings
    /\ working \subseteq 0 .. setting.servers - 1
    /\ lastServerIdx \in 0 .. setting.servers - 1
    /\ cache \subseteq Types

\* Only the ECH manager asks for HTTPS records, a task of Warmup neither stays
\* behind nor asks the system, and a lookup begins with the first server.
Kind(c) ==
    /\ c.type = "HTTPS" => c.op = "ech"
    /\ c.at \in {"idle", "system"} => c.op # "warm"
    /\ c.at = "lookup" => c.offset = 0

\* The tasks of Warmup that run; they hold the slots of its semaphore.
Tasks == {r \in Resolvers : call[r].op = "warm"}

SlotInv == warm.used = Cardinality(Tasks)

\* The i-th server of a request.
Asked(c, i) == (c.start + i) % setting.servers

\* Without the proxy the servers already asked do not work.
Blames(c) ==
    ~setting.proxied =>
        /\ c.at \notin InPool
        /\ c.at = "request" => \A i \in 0 .. c.offset - 1 : Asked(c, i) \notin working
        /\ c.at \in {"failed", "system"} => working = {}

CallInv ==
    /\ call \in [Resolvers -> CallSet]
    /\ \A r \in Resolvers : Kind(call[r]) /\ Blames(call[r])
    /\ warm \in WarmSet
    /\ SlotInv

\* Steps before a request has unregistered its stream: in the first ones it has
\* one, if its connection lives.
WithStream == {"acquired", "registered", "waiting", "exchange", "body"}
Before == WithStream \union {"unregister", "badUnregister"}

StreamInv ==
    /\ \A r \in streams : on[r] /\ call[r].at \in Before
    /\ \A r \in Resolvers : on[r] => open /\ call[r].at \in InPool
    /\ \A r \in Resolvers : on[r] /\ call[r].at \in WithStream => r \in streams
    /\ ~open => ~pooling /\ idle = 0 /\ streams = {}

ConnType ==
    /\ open \in BOOLEAN /\ pooling \in BOOLEAN /\ early \in BOOLEAN /\ stranded \in BOOLEAN
    /\ idle \in 0 .. 2 /\ mu \in Resolvers \union {NoResolver}
    /\ on \in [Resolvers -> BOOLEAN] /\ token \in [Resolvers -> BOOLEAN]
    /\ streams \subseteq Resolvers

\* A connection whose dial has still to append it is not in p.pool, and nobody uses
\* it, unless a request has taken a stream early.
PoolingInv ==
    /\ early => setting.multiplex
    /\ pooling => idle <= 1
    /\ pooling /\ ~early => idle = 0 /\ \A r \in Resolvers : ~on[r]

ConnInv == ConnType /\ StreamInv /\ PoolingInv /\ IdleUnused /\ ReturnedOrStranded

IInv == DohInv /\ CallInv /\ ConnInv

\* What the requests hold has its type.
LEMMA TypeInvariant == IInv => TypeOK
  <1> SUFFICES ASSUME IInv
               PROVE  TypeOK
    OBVIOUS
  <1>1. streams \subseteq {r \in Resolvers : call[r].at \in InPool}
    BY DEF IInv, ConnInv, ConnType, StreamInv, Before, WithStream, InPool
  <1>2. {open, pooling, early, stranded} \subseteq BOOLEAN /\ {on, token} \subseteq [Resolvers -> BOOLEAN]
    BY DEF IInv, ConnInv, ConnType
  <1>3. warm \in [at : {"on", "late", "done"}, left : Nat, used : 0 .. Sem]
    BY DEF IInv, CallInv, WarmSet
  <1>4. idle \in 0 .. 2 /\ mu \in Resolvers \union {NoResolver}
    BY DEF IInv, ConnInv, ConnType
  <1> QED
    BY <1>1, <1>2, <1>3, <1>4 DEF IInv, DohInv, CallInv, CallSet, TypeOK
-----------------------------------------------------------------------------
(* The servers *)

\* There is one.
LEMMA SomeServer ==
    ASSUME setting \in Settings
    PROVE  setting.servers \in Nat \ {0} /\ setting.domains \in Nat
           /\ setting.proxied \in BOOLEAN /\ setting.ops \subseteq Ops
  BY SettingAssumption

\* Counting modulo n past n - 1 goes on at 0.
LEMMA Modulo ==
    ASSUME NEW n \in Nat \ {0}, NEW x \in 0 .. n + n - 1
    PROVE  x % n = IF x < n THEN x ELSE x - n
  OBVIOUS

\* n steps from any server visit every server.
LEMMA AllVisited ==
    ASSUME NEW n \in Nat \ {0}, NEW s \in 0 .. n - 1, NEW w \in 0 .. n - 1
    PROVE  \E i \in 0 .. n - 1 : (s + i) % n = w
  <1>1. CASE w >= s
    <2>1. w - s \in 0 .. n - 1 /\ s + (w - s) = w /\ w \in 0 .. n + n - 1
      BY <1>1
    <2>2. w % n = w
      BY <2>1, Modulo
    <2> QED
      BY <2>1, <2>2
  <1>2. CASE w < s
    <2>1. w - s + n \in 0 .. n - 1 /\ s + (w - s + n) = w + n /\ w + n \in 0 .. n + n - 1
      BY <1>2
    <2>2. (w + n) % n = w
      BY <2>1, Modulo
    <2> QED
      BY <2>1, <2>2
  <1> QED
    BY <1>1, <1>2

\* The server asked is one of them.
LEMMA ServerType ==
    ASSUME DohInv, CallInv, NEW r \in Resolvers
    PROVE  Server(r) \in 0 .. setting.servers - 1 /\ Server(r) = Asked(call[r], call[r].offset)
  <1>1. setting.servers \in Nat \ {0}
    BY SomeServer DEF DohInv
  <1>2. call[r].start \in 0 .. setting.servers - 1 /\ call[r].offset \in 0 .. setting.servers - 1
    BY DEF CallInv, CallSet
  <1> DEFINE n == setting.servers
             x == call[r].start + call[r].offset
  <1>3. x \in 0 .. n + n - 1 /\ n \in Nat \ {0} /\ x \in Int
    BY <1>1, <1>2
  <1>4. Server(r) = x % n /\ Asked(call[r], call[r].offset) = x % n
    BY DEF Server, Asked
  <1> HIDE DEF n, x
  <1>5. x % n \in 0 .. n - 1
    BY <1>3, Modulo
  <1> QED
    BY <1>4, <1>5 DEF n
-----------------------------------------------------------------------------
(* What a lookup and a request turn into *)

\* The call of a goroutine that rests or begins.
LEMMA RestType ==
    ASSUME setting \in Settings
    PROVE  Rest \in CallSet
  BY SomeServer DEF CallSet, Rest, Ops, Types

\* A call that asks again: the i-th server, or the same one.
Next_(c, i) == [c EXCEPT !.at = "request", !.offset = i, !.try = 0]
Again(c, n) == [c EXCEPT !.at = "request", !.try = n]

LEMMA NextType ==
    ASSUME NEW c \in CallSet, NEW i \in 0 .. setting.servers - 1
    PROVE  /\ Next_(c, i) \in CallSet /\ Next_(c, i).op = c.op /\ Next_(c, i).type = c.type
           /\ Next_(c, i).start = c.start /\ Next_(c, i).offset = i /\ Next_(c, i).at = "request"
  <1> DEFINE d == [c EXCEPT !.at = "request", !.offset = i]
  <1>1. /\ d \in CallSet /\ d.op = c.op /\ d.type = c.type
        /\ d.start = c.start /\ d.offset = i /\ d.at = "request"
    BY DEF CallSet
  <1>2. Next_(c, i) = [d EXCEPT !.try = 0]
    BY DEF CallSet, Next_
  <1> HIDE DEF d
  <1> QED
    BY <1>1, <1>2 DEF CallSet

LEMMA AgainType ==
    ASSUME NEW c \in CallSet, NEW n \in 0 .. 3
    PROVE  /\ Again(c, n) \in CallSet /\ Again(c, n).op = c.op /\ Again(c, n).type = c.type
           /\ Again(c, n).start = c.start /\ Again(c, n).offset = c.offset
           /\ Again(c, n).at = "request"
  BY DEF CallSet, Again

\* A call that starts afresh.
Fresh(a, o, t, f) == [at |-> a, op |-> o, type |-> t, found |-> f,
                      start |-> 0, offset |-> 0, try |-> 0, whole |-> FALSE]

LEMMA FreshType ==
    ASSUME setting.servers \in Nat \ {0}, NEW o \in Ops, NEW f \in BOOLEAN,
           NEW t \in Types \union {"HTTPS"},
           NEW a \in {"idle", "lookup", "answered", "failed", "system"}
    PROVE  /\ Fresh(a, o, t, f) \in CallSet
           /\ Fresh(a, o, t, f).op = o /\ Fresh(a, o, t, f).type = t
           /\ Fresh(a, o, t, f).offset = 0 /\ Fresh(a, o, t, f).at = a
  <1>1. 0 \in 0 .. setting.servers - 1
    OBVIOUS
  <1> QED
    BY <1>1 DEF CallSet, Fresh

LEMMA OverFresh ==
    ASSUME NEW c \in CallSet, NEW d, d = Over(c, "answered")
    PROVE  d = Fresh("answered", c.op, c.type, c.found)
  <1>1. c.found \in BOOLEAN /\ c.op \in Ops /\ c.type \in Types \union {"HTTPS"}
    BY DEF CallSet
  <1> QED
    BY <1>1 DEF Over, Rest, Fresh

\* A lookup is over.
LEMMA ContinueFacts ==
    ASSUME DohInv, CallInv, NEW r \in Resolvers, NEW success \in BOOLEAN,
           NEW d, d = Continue(r, success)
    PROVE  /\ d \in CallSet
           /\ d.at \in {"idle", "lookup", "system"}
           /\ d.offset = 0
           /\ d.at # "idle" => d.op = call[r].op
           /\ d.at # "idle" => Kind(d)
           /\ d.at = "system" => ~success
  <1> DEFINE c == call[r]
             found == c.found \/ success
             more == success /\ c.op = "ips"
             no == FALSE
  <1>1. setting.servers \in Nat \ {0}
    BY SomeServer DEF DohInv
  <1>2. /\ c.op \in Ops /\ c.type \in Types \union {"HTTPS"}
        /\ c.type = "HTTPS" => c.op = "ech"
    BY DEF CallInv, CallSet, Kind
  <1>3. more \in BOOLEAN /\ no \in BOOLEAN
    OBVIOUS
  <1>4. "A" \in Types \union {"HTTPS"} /\ "AAAA" \in Types \union {"HTTPS"} /\ "any" \in Ops
    BY DEF Types, Ops
  <1>5. CASE c.op = "ech" \/ (c.op = "any" /\ success)
    <2>1. d = Fresh("idle", "any", "A", no)
      BY <1>5 DEF Continue, Rest, Fresh
    <2> HIDE DEF no
    <2> QED
      BY <1>1, <1>3, <1>4, <2>1, FreshType DEF Kind
  <1>6. CASE ~(c.op = "ech" \/ (c.op = "any" /\ success)) /\ c.type = "A"
    <2>1. d = Fresh("lookup", c.op, "AAAA", more)
      BY <1>6 DEF Continue, Rest, Fresh
    <2> HIDE DEF more
    <2> QED
      BY <1>1, <1>2, <1>3, <1>4, <2>1, FreshType DEF Kind
  <1>7. CASE ~(c.op = "ech" \/ (c.op = "any" /\ success)) /\ c.type = "AAAA"
    <2>1. CASE c.op = "warm" \/ found
      <3>1. d = Fresh("idle", c.op, "A", no)
        BY <1>7, <2>1 DEF Continue, Rest, Fresh
      <3> HIDE DEF no
      <3> QED
        BY <1>1, <1>2, <1>3, <1>4, <3>1, FreshType DEF Kind
    <2>2. CASE ~(c.op = "warm" \/ found)
      <3>1. d = Fresh("system", c.op, "A", no)
        BY <1>7, <2>2 DEF Continue, Rest, Fresh
      <3>2. ~success /\ c.op # "warm"
        BY <2>2
      <3> HIDE DEF no
      <3> QED
        BY <1>1, <1>2, <1>3, <1>4, <3>2, <3>1, FreshType DEF Kind
    <2> QED
      BY <2>1, <2>2
  <1>8. c.type \in {"A", "AAAA"} \/ c.op = "ech"
    BY <1>2 DEF Types
  <1> QED
    BY <1>5, <1>6, <1>7, <1>8

\* A request has failed.
LEMMA AfterErrorFacts ==
    ASSUME DohInv, NEW c \in CallSet, NEW result \in Errors
    PROVE  /\ AfterError(c, result) \in CallSet
           /\ AfterError(c, result).op = c.op /\ AfterError(c, result).type = c.type
           /\ AfterError(c, result).at \in {"request", "failed"}
           /\ AfterError(c, result).at = "request" =>
                  /\ AfterError(c, result).start = c.start
                  /\ AfterError(c, result).offset \in {c.offset, c.offset + 1}
           /\ AfterError(c, result).at = "failed" => c.offset + 1 >= setting.servers
  <1>1. setting.servers \in Nat \ {0}
    BY SomeServer DEF DohInv
  <1>2. /\ c.offset \in 0 .. setting.servers - 1
        /\ c.op \in Ops /\ c.type \in Types \union {"HTTPS"} /\ c.found \in BOOLEAN
        /\ c.try \in 0 .. 3
    BY DEF CallSet
  <1>3. CASE result # "late" /\ c.try \in {0, 2}
    <2>1. AfterError(c, result) = Again(c, c.try + 1)
      BY <1>3 DEF AfterError, Again
    <2>2. c.try + 1 \in 0 .. 3
      BY <1>3
    <2> QED
      BY <1>1, <1>2, <2>1, <2>2, AgainType
  <1>4. CASE result # "late" /\ c.try = 1 /\ result = "retry"
    <2>1. AfterError(c, result) = Again(c, 2) /\ 2 \in 0 .. 3
      BY <1>4 DEF AfterError, Again
    <2> QED
      BY <1>1, <1>2, <2>1, AgainType
  <1>5. CASE result = "late" \/ (c.try \notin {0, 2} /\ ~(c.try = 1 /\ result = "retry"))
    <2>1. AfterError(c, result) = NextServer(c)
      <3>1. CASE result = "late"
        BY <3>1 DEF AfterError
      <3>2. CASE result # "late"
        BY <1>5, <3>2 DEF AfterError
      <3> QED
        BY <3>1, <3>2
    <2>2. CASE c.offset + 1 < setting.servers
      <3>1. c.offset + 1 \in 0 .. setting.servers - 1 /\ 0 \in 0 .. 3
        BY <1>1, <1>2, <2>2
      <3>2. NextServer(c) = Next_(c, c.offset + 1)
        BY <2>2 DEF NextServer, Next_
      <3> QED
        BY <2>1, <3>1, <3>2, NextType
    <2>3. CASE ~(c.offset + 1 < setting.servers)
      <3>1. NextServer(c) = Fresh("failed", c.op, c.type, c.found)
        BY <2>3 DEF NextServer, Over, Rest, Fresh
      <3> QED
        BY <1>1, <1>2, <2>1, <2>3, <3>1, FreshType
    <2> QED
      BY <2>2, <2>3
  <1> QED
    BY <1>3, <1>4, <1>5
-----------------------------------------------------------------------------
(* One call changes *)

\* The server whose request fails is one more that does not work.
LEMMA BlamesMore ==
    ASSUME DohInv, CallInv, NEW r \in Resolvers, NEW d,
           call[r].at \in InPool \union {"request"},
           ~setting.proxied => Server(r) \notin working,
           d.at \in {"request", "failed"},
           d.at = "request" => /\ d.start = call[r].start
                               /\ d.offset \in {call[r].offset, call[r].offset + 1},
           d.at = "failed" => call[r].offset + 1 >= setting.servers
    PROVE  Blames(d)
  <1> DEFINE c == call[r]
  <1>1. /\ setting.servers \in Nat \ {0} /\ working \subseteq 0 .. setting.servers - 1
        /\ c.start \in 0 .. setting.servers - 1 /\ c.offset \in 0 .. setting.servers - 1
    BY SomeServer DEF DohInv, CallInv, CallSet
  <1> SUFFICES ASSUME ~setting.proxied
               PROVE  /\ d.at \notin InPool
                      /\ d.at = "request" => \A i \in 0 .. d.offset - 1 : Asked(d, i) \notin working
                      /\ d.at \in {"failed", "system"} => working = {}
    BY DEF Blames
  <1>2. \A i \in 0 .. c.offset : Asked(c, i) \notin working
    <2>1. Asked(c, c.offset) \notin working
      BY ServerType
    <2>2. c.at = "request" /\ \A i \in 0 .. c.offset - 1 : Asked(c, i) \notin working
      BY DEF CallInv, Blames
    <2> QED
      BY <1>1, <2>1, <2>2
  <1>3. d.at \notin InPool
    BY DEF InPool
  <1>4. ASSUME d.at = "request"
        PROVE  \A i \in 0 .. d.offset - 1 : Asked(d, i) \notin working
    <2>1. \A i \in 0 .. d.offset - 1 : i \in 0 .. c.offset
      BY <1>1, <1>4
    <2>2. \A i \in 0 .. d.offset - 1 : Asked(d, i) = Asked(c, i)
      BY <1>4 DEF Asked
    <2> QED
      BY <1>2, <2>1, <2>2
  <1>5. ASSUME d.at = "failed", NEW w \in working
        PROVE  FALSE
    <2>1. PICK i \in 0 .. setting.servers - 1 : (c.start + i) % setting.servers = w
      BY <1>1, AllVisited
    <2>2. i \in 0 .. c.offset
      BY <1>1, <1>5
    <2> QED
      BY <1>2, <2>1, <2>2 DEF Asked
  <1> QED
    BY <1>3, <1>4, <1>5

\* resolveAttempt of a server that fails.
LEMMA ReturnedFacts ==
    ASSUME DohInv, CallInv, NEW r \in Resolvers, NEW result \in {"ok"} \union Errors,
           call[r].at \in InPool \union {"request"}, Returned(r, result),
           result # "ok" /\ ~setting.proxied => Server(r) \notin working
    PROVE  /\ lastServerIdx' \in 0 .. setting.servers - 1
           /\ \E d \in CallSet : /\ Become(r, d) /\ Kind(d) /\ Blames(d) /\ d.op = call[r].op
                                 /\ d.at \in {"answered", "request", "failed"}
  <1> DEFINE c == call[r]
  <1>1. c \in CallSet /\ Kind(c) /\ lastServerIdx \in 0 .. setting.servers - 1
    BY DEF CallInv, DohInv
  <1>2. setting.servers \in Nat \ {0}
    BY SomeServer DEF DohInv
  <1>3. CASE result = "ok"
    <2> DEFINE d == Fresh("answered", c.op, c.type, c.found)
    <2>1. Become(r, d) /\ lastServerIdx' = IF c.offset = 0 THEN lastServerIdx ELSE Server(r)
      <3>1. Over(c, "answered") = d
        BY <1>1, OverFresh DEF CallSet
      <3> HIDE DEF d
      <3> QED
        BY <1>3, <3>1 DEF Returned
    <2>2. d \in CallSet /\ d.op = c.op /\ d.type = c.type /\ d.at = "answered"
      <3>1. c.op \in Ops /\ c.found \in BOOLEAN /\ c.type \in Types \union {"HTTPS"}
        BY <1>1 DEF CallSet
      <3> QED
        BY <1>2, <3>1, FreshType
    <2> HIDE DEF d
    <2>3. Kind(d) /\ Blames(d)
      BY <1>1, <2>2 DEF Kind, Blames, InPool
    <2> QED
      BY <1>1, <2>1, <2>2, <2>3, ServerType
  <1>4. CASE result # "ok"
    <2> DEFINE d == AfterError(c, result)
    <2>1. Become(r, d) /\ lastServerIdx' = lastServerIdx /\ result \in Errors
      BY <1>4 DEF Returned
    <2>2. /\ d \in CallSet /\ d.op = c.op /\ d.type = c.type /\ d.at \in {"request", "failed"}
          /\ d.at = "request" => d.start = c.start /\ d.offset \in {c.offset, c.offset + 1}
          /\ d.at = "failed" => c.offset + 1 >= setting.servers
      BY <1>1, <2>1, AfterErrorFacts
    <2> HIDE DEF d
    <2>3. Blames(d)
      BY <1>4, <2>2, BlamesMore
    <2>4. Kind(d)
      BY <1>1, <2>2 DEF Kind
    <2> QED
      BY <1>1, <2>1, <2>2, <2>3, <2>4
  <1> QED
    BY <1>3, <1>4

\* A call that is a task of Warmup before and after, or neither.
LEMMA Moves ==
    ASSUME CallInv, NEW r \in Resolvers, NEW d \in CallSet, Become(r, d), Kind(d), Blames(d),
           d.op = "warm" <=> call[r].op = "warm", UNCHANGED <<setting, working>>,
           warm' \in WarmSet, warm'.used = warm.used
    PROVE  CallInv'
  <1>1. call' \in [Resolvers -> CallSet] /\ CallSet' = CallSet /\ WarmSet' = WarmSet
    BY DEF CallInv, Become, CallSet, WarmSet
  <1>2. call'[r] = d /\ \A q \in Resolvers \ {r} : call'[q] = call[q]
    BY DEF CallInv, Become
  <1>3. Tasks' = Tasks
    BY <1>2 DEF Tasks
  <1>4. \A q \in Resolvers : Kind(call[q])' /\ Blames(call[q])'
    BY <1>2 DEF CallInv, Kind, Blames, Asked
  <1>5. SlotInv'
    BY <1>3 DEF SlotInv, CallInv
  <1> QED
    BY <1>1, <1>4, <1>5 DEF CallInv

\* Outside of the pool nothing concerns the connection.
LEMMA Calm ==
    ASSUME CallInv, ConnInv, NEW r \in Resolvers, NEW d, Become(r, d), UNCHANGED <<setting, connVars>>,
           call[r].at \notin InPool
    PROVE  ConnInv'
  <1>1. \A q \in Resolvers \ {r} : call'[q] = call[q]
    BY DEF CallInv, Become
  <1>2. UNCHANGED <<setting, open, pooling, idle, early, mu, streams, on, token, stranded>>
    BY DEF connVars, poolVars
  <1>3. ~on[r] /\ r \notin streams
    BY DEF ConnInv, StreamInv, Before, WithStream, InPool
  <1>4. ConnType' /\ PoolingInv' /\ IdleUnused'
    BY <1>2 DEF ConnInv, ConnType, PoolingInv, IdleUnused
  <1>5. StreamInv'
    BY <1>1, <1>2, <1>3 DEF ConnInv, ConnType, StreamInv
  <1>6. ReturnedOrStranded'
    BY <1>1, <1>2, <1>3 DEF ConnInv, ReturnedOrStranded
  <1> QED
    BY <1>4, <1>5, <1>6 DEF ConnInv

\* A task of Warmup that is over gives its slot back.
LEMMA Leaves ==
    ASSUME DohInv, CallInv, IsFiniteSet(Resolvers), NEW r \in Resolvers, NEW c \in CallSet, Leave(r, c),
           c.at # "idle" => c.op = call[r].op /\ Kind(c) /\ Blames(c),
           UNCHANGED <<setting, working>>
    PROVE  CallInv'
  <1> DEFINE d == IF c.at = "idle" THEN Rest ELSE c
  <1>1. Become(r, d) /\ d \in CallSet /\ Kind(d) /\ Blames(d)
    <2>1. Rest \in CallSet /\ Kind(Rest) /\ Blames(Rest)
      BY RestType DEF DohInv, Rest, Kind, Blames, InPool
    <2> QED
      BY <2>1 DEF Leave
  <1>2. warm \in WarmSet /\ warm.used \in Nat /\ warm.used = Cardinality(Tasks)
    BY SizeAssumption DEF CallInv, SlotInv, WarmSet
  <1>3. CASE c.at = "idle" /\ call[r].op = "warm"
    <2>1. warm' = [warm EXCEPT !.used = warm.used - 1]
      BY <1>3 DEF Leave
    <2>2. Tasks' = Tasks \ {r} /\ r \in Tasks
      <3>1. call' = [call EXCEPT ![r] = Rest] /\ Rest.op # "warm"
        BY <1>3, <1>1 DEF Become, Rest
      <3> QED
        BY <1>3, <3>1 DEF Tasks, CallInv
    <2>3. IsFiniteSet(Tasks)
      BY FS_Subset DEF Tasks
    <2>4. Cardinality(Tasks') = Cardinality(Tasks) - 1 /\ Cardinality(Tasks) # 0
      BY <2>2, <2>3, FS_RemoveElement, FS_EmptySet
    <2>5. warm' \in WarmSet /\ warm'.used = warm.used - 1
      BY <1>2, <2>1, <2>4, SizeAssumption DEF WarmSet
    <2>6. SlotInv'
      BY <1>2, <2>4, <2>5 DEF SlotInv
    <2>7. call' \in [Resolvers -> CallSet] /\ CallSet' = CallSet /\ WarmSet' = WarmSet
      BY <1>1 DEF CallInv, Become, CallSet, WarmSet
    <2>8. \A q \in Resolvers : Kind(call[q])' /\ Blames(call[q])'
      <3>1. call'[r] = d /\ \A q \in Resolvers \ {r} : call'[q] = call[q]
        BY <1>1 DEF CallInv, Become
      <3> HIDE DEF d
      <3> QED
        BY <1>1, <3>1 DEF CallInv, Kind, Blames, Asked
    <2> QED
      BY <2>5, <2>6, <2>7, <2>8 DEF CallInv
  <1>4. CASE ~(c.at = "idle" /\ call[r].op = "warm")
    <2>1. warm' = warm
      BY <1>4 DEF Leave
    <2>2. d.op = "warm" <=> call[r].op = "warm"
      BY <1>4 DEF Rest
    <2> HIDE DEF d
    <2> QED
      BY <1>1, <1>2, <2>1, <2>2, Moves
  <1> QED
    BY <1>3, <1>4

\* A lookup that ends leaves the rest in order.
LEMMA ContinueLeaves ==
    ASSUME DohInv, CallInv, IsFiniteSet(Resolvers), NEW r \in Resolvers, NEW success \in BOOLEAN,
           Leave(r, Continue(r, success)), UNCHANGED <<setting, working>>,
           call[r].at = "failed" \/ success
    PROVE  CallInv'
  <1> DEFINE d == Continue(r, success)
  <1>1. /\ d \in CallSet /\ d.at \in {"idle", "lookup", "system"} /\ d.offset = 0
        /\ d.at # "idle" => Kind(d)
        /\ d.at # "idle" => d.op = call[r].op
        /\ d.at = "system" => ~success
    BY ContinueFacts
  <1>2. Leave(r, d)
    OBVIOUS
  <1> HIDE DEF d
  <1>3. d.at # "idle" => Blames(d)
    <2>1. d.at = "system" => (~setting.proxied => working = {})
      BY <1>1 DEF CallInv, Blames
    <2> QED
      BY <1>1, <2>1 DEF Blames, InPool
  <1> QED
    BY <1>1, <1>2, <1>3, Leaves
-----------------------------------------------------------------------------
(* Lookups, Warmup and the requests without the proxy *)

LEMMA InitInvariant == Init => IInv
  <1> SUFFICES ASSUME Init
               PROVE  IInv
    OBVIOUS
  <1>1. /\ setting \in Settings /\ setting.servers \in Nat \ {0} /\ setting.domains \in Nat
        /\ setting.proxied \in BOOLEAN
    BY SomeServer DEF Init
  <1>2. DohInv
    BY <1>1 DEF Init, DohInv
  <1>3. CallInv
    <2>1. Rest \in CallSet /\ Kind(Rest) /\ Blames(Rest) /\ Rest.op # "warm"
      BY <1>1, RestType DEF Rest, Kind, Blames, InPool
    <2>2. call = [r \in Resolvers |-> Rest]
      BY DEF Init
    <2>3. warm \in WarmSet /\ warm.used = 0
      BY <1>1, SizeAssumption DEF Init, WarmSet
    <2>4. Tasks = {}
      BY <2>1, <2>2 DEF Tasks
    <2>5. SlotInv
      BY <2>3, <2>4, FS_EmptySet DEF SlotInv
    <2> HIDE DEF Init
    <2> QED
      BY <2>1, <2>2, <2>3, <2>5 DEF CallInv
  <1>4. ConnInv
    <2>1. ConnType
      <3>1. idle \in 0 .. 2
        BY DEF Init
      <3>2. open \in BOOLEAN /\ pooling \in BOOLEAN /\ early \in BOOLEAN /\ stranded \in BOOLEAN
        BY <1>1 DEF Init
      <3>3. /\ mu \in Resolvers \union {NoResolver} /\ streams \subseteq Resolvers
            /\ on \in [Resolvers -> BOOLEAN] /\ token \in [Resolvers -> BOOLEAN]
        BY DEF Init
      <3> HIDE DEF Init
      <3> QED
        BY <3>1, <3>2, <3>3 DEF ConnType
    <2>2. StreamInv /\ PoolingInv /\ IdleUnused /\ ReturnedOrStranded
      BY <1>1 DEF Init, StreamInv, PoolingInv, IdleUnused, ReturnedOrStranded
    <2> QED
      BY <2>1, <2>2 DEF ConnInv
  <1> QED
    BY <1>2, <1>3, <1>4 DEF IInv

\* Resolve, Dispatch.
LEMMA BeginFacts ==
    ASSUME NEW op \in Ops, setting \in Settings,
           NEW d, d = [Rest EXCEPT !.at = "lookup", !.op = op,
                                   !.type = IF op = "ech" THEN "HTTPS" ELSE "A"]
    PROVE  d \in CallSet /\ Kind(d) /\ Blames(d) /\ d.op = op
  <1> DEFINE t == IF op = "ech" THEN "HTTPS" ELSE "A"
             no == FALSE
  <1>1. d = Fresh("lookup", op, t, no)
    BY DEF Rest, Fresh
  <1>2. t \in Types \union {"HTTPS"} /\ (t = "HTTPS" => op = "ech") /\ no \in BOOLEAN
    BY DEF Types
  <1>3. setting.servers \in Nat \ {0}
    BY SomeServer
  <1> HIDE DEF t, no
  <1>4. d \in CallSet /\ d.op = op /\ d.type = t /\ d.offset = 0 /\ d.at = "lookup"
    <2>1. ASSUME NEW e, e = Fresh("lookup", op, t, no)
          PROVE  e \in CallSet /\ e.op = op /\ e.type = t /\ e.offset = 0 /\ e.at = "lookup"
      BY <1>2, <1>3, <2>1, FreshType
    <2> QED
      BY <1>1, <2>1
  <1> QED
    BY <1>2, <1>4 DEF Kind, Blames, InPool

LEMMA ResolveStep ==
    ASSUME IInv, NEW r \in Resolvers, Resolve(r)
    PROVE  IInv'
  <1>1. DohInv /\ CallInv /\ ConnInv /\ UNCHANGED <<setting, dohVars, connVars, warm>>
    BY DEF IInv, Resolve
  <1>2. UNCHANGED <<setting, working, lastServerIdx, cache, warm>>
    BY <1>1 DEF dohVars
  <1>3. PICK op \in setting.ops \ {"warm"} : Begin(r, op)
    BY DEF Resolve
  <1> DEFINE d == [Rest EXCEPT !.at = "lookup", !.op = op,
                               !.type = IF op = "ech" THEN "HTTPS" ELSE "A"]
  <1>4. Become(r, d)
    BY <1>3 DEF Begin
  <1>5. op \in Ops /\ op # "warm"
    BY <1>1, <1>3, SomeServer DEF DohInv
  <1>6. d \in CallSet /\ Kind(d) /\ Blames(d) /\ d.op = op
    BY <1>1, <1>5, BeginFacts DEF DohInv
  <1> HIDE DEF d
  <1>7. call[r].op # "warm" /\ call[r].at \notin InPool
    BY <1>1 DEF Resolve, At, CallInv, Kind, InPool
  <1>8. CallInv'
    <2>1. warm' \in WarmSet /\ warm'.used = warm.used
      BY <1>1, <1>2 DEF CallInv
    <2> QED
      BY <1>1, <1>2, <1>4, <1>5, <1>6, <1>7, <2>1, Moves
  <1>9. ConnInv'
    BY <1>1, <1>4, <1>7, Calm
  <1> QED
    BY <1>1, <1>2, <1>8, <1>9 DEF IInv, DohInv

LEMMA DispatchStep ==
    ASSUME IInv, NEW r \in Resolvers, Dispatch(r)
    PROVE  IInv'
  <1>1. DohInv /\ CallInv /\ ConnInv /\ UNCHANGED <<setting, dohVars, connVars>>
    BY DEF IInv, Dispatch
  <1>2. UNCHANGED <<setting, working, lastServerIdx, cache>>
    BY <1>1 DEF dohVars
  <1> DEFINE op == "warm"
             d == [Rest EXCEPT !.at = "lookup", !.op = op,
                               !.type = IF op = "ech" THEN "HTTPS" ELSE "A"]
  <1>3. Become(r, d)
    BY DEF Dispatch, Begin
  <1>4. op \in Ops
    BY DEF Ops
  <1>5. d \in CallSet /\ Kind(d) /\ Blames(d) /\ d.op = "warm"
    BY <1>1, <1>4, BeginFacts DEF DohInv
  <1> HIDE DEF d
  <1>6. call[r].op # "warm" /\ call[r].at \notin InPool
    BY <1>1 DEF Dispatch, At, CallInv, Kind, InPool
  <1>7. call'[r] = d /\ \A q \in Resolvers \ {r} : call'[q] = call[q]
    BY <1>1, <1>3 DEF CallInv, Become
  <1>8. call' \in [Resolvers -> CallSet] /\ CallSet' = CallSet /\ WarmSet' = WarmSet
    BY <1>1, <1>2, <1>3, <1>5 DEF CallInv, Become, CallSet, WarmSet
  <1>9. \A q \in Resolvers : Kind(call[q])' /\ Blames(call[q])'
    BY <1>1, <1>2, <1>5, <1>7 DEF CallInv, Kind, Blames, Asked
  <1>10. warm' \in WarmSet /\ warm'.used = warm.used + 1
    <2>1. /\ warm.left \in Nat /\ warm.used \in Nat /\ warm.left > 0 /\ warm.used < Sem /\ Sem \in Nat
          /\ warm \in [at : {"on", "late", "done"}, left : Nat, used : 0 .. Sem]
      BY <1>1, SizeAssumption DEF Dispatch, CallInv, WarmSet
    <2>2. warm.left - 1 \in Nat /\ warm.used + 1 \in 0 .. Sem
      BY <2>1
    <2>3. warm' = [warm EXCEPT !.left = warm.left - 1, !.used = warm.used + 1]
      BY DEF Dispatch
    <2> QED
      BY <2>1, <2>2, <2>3 DEF WarmSet
  <1>11. SlotInv'
    <2>1. Tasks' = Tasks \union {r} /\ r \notin Tasks
      BY <1>5, <1>6, <1>7 DEF Tasks
    <2>2. Cardinality(Tasks') = Cardinality(Tasks) + 1
      <3>1. IsFiniteSet(Tasks)
        BY SizeAssumption, FS_Subset DEF Tasks
      <3> QED
        BY <2>1, <3>1, FS_AddElement
    <2> QED
      BY <1>1, <1>10, <2>2 DEF SlotInv, CallInv
  <1>12. ConnInv'
    BY <1>1, <1>3, <1>6, Calm
  <1> QED
    BY <1>1, <1>2, <1>8, <1>9, <1>10, <1>11, <1>12 DEF IInv, DohInv, CallInv

\* Hit, Store, GiveUp: a lookup has its answer.
LEMMA LookupEnds ==
    ASSUME IInv, NEW r \in Resolvers, NEW success \in BOOLEAN, Leave(r, Continue(r, success)),
           call[r].at \in {"lookup", "answered", "failed"}, call[r].at = "failed" \/ success,
           UNCHANGED <<setting, working, lastServerIdx, connVars>>, cache' \subseteq Types
    PROVE  IInv'
  <1>1. DohInv /\ CallInv /\ ConnInv /\ IsFiniteSet(Resolvers)
    BY SizeAssumption DEF IInv
  <1>2. UNCHANGED <<setting, working>>
    OBVIOUS
  <1>3. CallInv'
    BY <1>1, <1>2, ContinueLeaves
  <1>4. ConnInv'
    <2> DEFINE d == Continue(r, success)
    <2>1. Become(r, IF d.at = "idle" THEN Rest ELSE d)
      BY DEF Leave
    <2>2. call[r].at \notin InPool /\ UNCHANGED <<setting, connVars>>
      BY DEF InPool
    <2> HIDE DEF d
    <2> QED
      BY <1>1, <2>1, <2>2, Calm
  <1>5. DohInv'
    BY <1>1 DEF DohInv
  <1> QED
    BY <1>3, <1>4, <1>5 DEF IInv

LEMMA HitStep ==
    ASSUME IInv, NEW r \in Resolvers, Hit(r)
    PROVE  IInv'
  <1> DEFINE yes == TRUE
  <1>1. /\ Leave(r, Continue(r, yes)) /\ call[r].at = "lookup"
        /\ UNCHANGED <<setting, working, lastServerIdx, connVars>> /\ cache' \subseteq Types
    BY DEF Hit, At, dohVars, IInv, DohInv
  <1>2. yes \in BOOLEAN /\ yes
    OBVIOUS
  <1> HIDE DEF yes
  <1> QED
    BY <1>1, <1>2, LookupEnds

LEMMA StoreStep ==
    ASSUME IInv, NEW r \in Resolvers, Store(r)
    PROVE  IInv'
  <1> DEFINE yes == TRUE
  <1>1. /\ Leave(r, Continue(r, yes)) /\ call[r].at = "answered"
        /\ UNCHANGED <<setting, working, lastServerIdx, connVars>> /\ cache' \subseteq Types
    BY DEF Store, At, IInv, DohInv
  <1>2. yes \in BOOLEAN /\ yes
    OBVIOUS
  <1> HIDE DEF yes
  <1> QED
    BY <1>1, <1>2, LookupEnds

LEMMA GiveUpStep ==
    ASSUME IInv, NEW r \in Resolvers, GiveUp(r)
    PROVE  IInv'
  <1> DEFINE no == FALSE
  <1>1. /\ Leave(r, Continue(r, no)) /\ call[r].at = "failed"
        /\ UNCHANGED <<setting, working, lastServerIdx, connVars>> /\ cache' \subseteq Types
    BY DEF GiveUp, At, dohVars, IInv, DohInv
  <1>2. no \in BOOLEAN
    OBVIOUS
  <1> HIDE DEF no
  <1> QED
    BY <1>1, <1>2, LookupEnds

LEMMA StopEarlyStep ==
    ASSUME IInv, NEW r \in Resolvers, StopEarly(r)
    PROVE  IInv'
  <1>1. DohInv /\ CallInv /\ ConnInv /\ IsFiniteSet(Resolvers)
    BY SizeAssumption DEF IInv
  <1>2. /\ Leave(r, Rest) /\ UNCHANGED <<setting, working, lastServerIdx, cache, connVars>>
        /\ call[r].at \notin InPool
    BY DEF StopEarly, dohVars, At, InPool
  <1>3. Rest \in CallSet /\ Rest.at = "idle"
    BY <1>1, RestType DEF DohInv, Rest
  <1>4. CallInv'
    <2>1. UNCHANGED <<setting, working>>
      BY <1>2
    <2> QED
      BY <1>1, <1>2, <1>3, <2>1, Leaves
  <1>5. ConnInv'
    <2>1. Become(r, Rest)
      BY <1>2, <1>3 DEF Leave
    <2> QED
      BY <1>1, <1>2, <2>1, Calm
  <1> QED
    BY <1>1, <1>2, <1>4, <1>5 DEF IInv, DohInv

LEMMA MissStep ==
    ASSUME IInv, NEW r \in Resolvers, Miss(r)
    PROVE  IInv'
  <1> DEFINE c == call[r]
             d == [c EXCEPT !.at = "request", !.start = lastServerIdx]
  <1>1. /\ DohInv /\ CallInv /\ ConnInv
        /\ UNCHANGED <<setting, working, lastServerIdx, cache, connVars, warm>>
        /\ Become(r, d) /\ c.at = "lookup"
    BY DEF IInv, Miss, dohVars, At
  <1>2. c \in CallSet /\ Kind(c) /\ lastServerIdx \in 0 .. setting.servers - 1
    BY <1>1 DEF CallInv, DohInv
  <1>3. d \in CallSet /\ d.at = "request" /\ d.offset = c.offset /\ d.op = c.op /\ d.type = c.type
    BY <1>2 DEF CallSet
  <1> HIDE DEF d
  <1>4. Kind(d) /\ Blames(d)
    <2>1. d.offset = 0 /\ \A i \in 0 .. 0 - 1 : FALSE
      BY <1>1, <1>2, <1>3 DEF Kind
    <2> QED
      BY <1>2, <1>3, <2>1 DEF Kind, Blames, InPool
  <1>5. CallInv'
    <2>1. warm' \in WarmSet /\ warm'.used = warm.used /\ UNCHANGED <<setting, working>>
      BY <1>1 DEF CallInv
    <2> QED
      BY <1>1, <1>3, <1>4, <2>1, Moves
  <1>6. ConnInv'
    <2>1. c.at \notin InPool
      BY <1>1 DEF InPool
    <2> QED
      BY <1>1, <2>1, Calm
  <1> QED
    BY <1>1, <1>5, <1>6 DEF IInv, DohInv

LEMMA AskSystemStep ==
    ASSUME IInv, NEW r \in Resolvers, AskSystem(r)
    PROVE  IInv'
  <1>1. /\ DohInv /\ CallInv /\ ConnInv
        /\ UNCHANGED <<setting, working, lastServerIdx, connVars, warm>>
        /\ Become(r, Rest) /\ call[r].at = "system" /\ cache' \subseteq Types
    BY DEF IInv, AskSystem, At, DohInv
  <1>2. Rest \in CallSet /\ Kind(Rest) /\ Blames(Rest) /\ Rest.op # "warm" /\ call[r].op # "warm"
    BY <1>1, RestType DEF CallInv, DohInv, Rest, Kind, Blames, InPool
  <1>3. CallInv'
    <2>1. warm' \in WarmSet /\ warm'.used = warm.used /\ UNCHANGED <<setting, working>>
      BY <1>1 DEF CallInv
    <2> QED
      BY <1>1, <1>2, <2>1, Moves
  <1>4. ConnInv'
    <2>1. call[r].at \notin InPool
      BY <1>1 DEF InPool
    <2> QED
      BY <1>1, <2>1, Calm
  <1> QED
    BY <1>1, <1>3, <1>4 DEF IInv, DohInv

\* DirectRequest, AcquireFails: a request ends without a connection.
LEMMA RequestEnds ==
    ASSUME IInv, NEW r \in Resolvers, NEW result \in {"ok"} \union Errors, Returned(r, result),
           call[r].at = "request", UNCHANGED <<setting, working, cache, connVars, warm>>,
           result # "ok" /\ ~setting.proxied => Server(r) \notin working
    PROVE  IInv'
  <1>1. DohInv /\ CallInv /\ ConnInv /\ call[r].at \in InPool \union {"request"} /\ call[r].at \notin InPool
    BY DEF IInv, InPool
  <1>2. /\ lastServerIdx' \in 0 .. setting.servers - 1
        /\ \E d \in CallSet : /\ Become(r, d) /\ Kind(d) /\ Blames(d) /\ d.op = call[r].op
                              /\ d.at \in {"answered", "request", "failed"}
    BY <1>1, ReturnedFacts
  <1>3. PICK d \in CallSet : Become(r, d) /\ Kind(d) /\ Blames(d) /\ d.op = call[r].op
    BY <1>2
  <1>4. CallInv'
    <2>1. warm' \in WarmSet /\ warm'.used = warm.used /\ UNCHANGED <<setting, working>>
      BY <1>1 DEF CallInv
    <2> QED
      BY <1>1, <1>3, <2>1, Moves
  <1>5. ConnInv'
    BY <1>1, <1>3, Calm
  <1> QED
    BY <1>1, <1>2, <1>4, <1>5 DEF IInv, DohInv

LEMMA DirectRequestStep ==
    ASSUME IInv, NEW r \in Resolvers, DirectRequest(r)
    PROVE  IInv'
  <1>1. PICK result \in IF Server(r) \in working THEN {"ok"} ELSE {"ok"} \union Errors :
           Returned(r, result)
    BY DEF DirectRequest
  <1>2. result \in {"ok"} \union Errors /\ (result # "ok" => Server(r) \notin working)
    OBVIOUS
  <1>3. call[r].at = "request" /\ UNCHANGED <<setting, working, cache, connVars, warm>>
    BY DEF DirectRequest, At
  <1> QED
    BY <1>1, <1>2, <1>3, RequestEnds

LEMMA AcquireFailsStep ==
    ASSUME IInv, NEW r \in Resolvers, AcquireFails(r)
    PROVE  IInv'
  <1>1. PICK result \in Errors : Returned(r, result)
    BY DEF AcquireFails, Fail
  <1>2. call[r].at = "request" /\ UNCHANGED <<setting, working, cache, connVars, warm>> /\ setting.proxied
    BY DEF AcquireFails, At
  <1> QED
    BY <1>1, <1>2, RequestEnds

\* Steps of the cache, the servers and Warmup.
LEMMA SurroundingsStep ==
    ASSUME IInv, Expire \/ ServersChange \/ WarmupLate \/ WarmupEnd
    PROVE  IInv'
  <1>1. DohInv /\ CallInv /\ ConnInv /\ UNCHANGED <<setting, call, connVars, lastServerIdx>>
    BY DEF IInv, Expire, ServersChange, WarmupLate, WarmupEnd, dohVars
  <1>2. ConnInv'
    <2>1. UNCHANGED <<setting, call, open, pooling, idle, early, mu, streams, on, token, stranded>>
      BY <1>1 DEF connVars, poolVars
    <2> QED
      BY <1>1, <2>1 DEF ConnInv, ConnType, StreamInv, PoolingInv, IdleUnused, ReturnedOrStranded
  <1>3. DohInv'
    <2>1. cache' \subseteq Types
      BY <1>1 DEF DohInv, Expire, ServersChange, WarmupLate, WarmupEnd, dohVars
    <2>2. working' \subseteq 0 .. setting.servers - 1
      BY <1>1 DEF DohInv, Expire, ServersChange, WarmupLate, WarmupEnd, dohVars
    <2> QED
      BY <1>1, <2>1, <2>2 DEF DohInv
  <1>4. warm' \in WarmSet /\ warm'.used = warm.used
    BY <1>1 DEF CallInv, WarmSet, Expire, ServersChange, WarmupLate, WarmupEnd
  <1>5. \A r \in Resolvers : Kind(call[r])' /\ Blames(call[r])'
    <2>1. CASE ServersChange
      BY <1>1, <2>1 DEF CallInv, Kind, Blames, ServersChange
    <2>2. CASE ~ServersChange
      <3>1. working' = working
        BY <2>2 DEF Expire, WarmupLate, WarmupEnd, dohVars
      <3> QED
        BY <1>1, <3>1 DEF CallInv, Kind, Blames, Asked
    <2> QED
      BY <2>1, <2>2
  <1>6. CallInv'
    BY <1>1, <1>4, <1>5 DEF CallInv, CallSet, WarmSet, SlotInv, Tasks
  <1> QED
    BY <1>2, <1>3, <1>6 DEF IInv
-----------------------------------------------------------------------------
(* The requests over the pool *)

\* Only with the proxy.
LEMMA Proxied ==
    ASSUME CallInv, NEW r \in Resolvers, call[r].at \in InPool
    PROVE  setting.proxied
  BY DEF CallInv, Blames

\* A request goes on to its next step.
LEMMA GoesOn ==
    ASSUME CallInv, NEW r \in Resolvers, NEW step \in InPool, NEW d,
           \/ d = [call[r] EXCEPT !.at = step]
           \/ \E whole \in BOOLEAN : d = [call[r] EXCEPT !.at = step, !.whole = whole],
           Become(r, d), setting.proxied, UNCHANGED <<setting, working, warm>>
    PROVE  CallInv' /\ call'[r].at = step /\ \A q \in Resolvers \ {r} : call'[q] = call[q]
  <1> DEFINE c == call[r]
  <1>1. c \in CallSet /\ Kind(c)
    BY DEF CallInv
  <1>2. d \in CallSet /\ d.at = step /\ d.op = c.op /\ d.type = c.type
    BY <1>1 DEF CallSet
  <1>3. Kind(d) /\ Blames(d)
    BY <1>1, <1>2 DEF Kind, Blames, InPool
  <1>4. CallInv'
    <2>1. warm' \in WarmSet /\ warm'.used = warm.used /\ UNCHANGED <<setting, working>>
      BY DEF CallInv
    <2> QED
      BY <1>2, <1>3, <2>1, Moves
  <1>5. call'[r] = d /\ \A q \in Resolvers \ {r} : call'[q] = call[q]
    BY DEF CallInv, Become
  <1> QED
    BY <1>2, <1>4, <1>5

LEMMA GotoGoesOn ==
    ASSUME CallInv, NEW r \in Resolvers, NEW step \in InPool,
           Goto(r, step), setting.proxied, UNCHANGED <<setting, working, warm>>
    PROVE  CallInv' /\ call'[r].at = step /\ \A q \in Resolvers \ {r} : call'[q] = call[q]
  <1> DEFINE d == [call[r] EXCEPT !.at = step]
  <1>1. Become(r, d)
    BY DEF Goto, Become
  <1>2. d = [call[r] EXCEPT !.at = step]
    OBVIOUS
  <1> HIDE DEF d
  <1> QED
    BY <1>1, <1>2, GoesOn

\* A request ends.
LEMMA Ends ==
    ASSUME DohInv, CallInv, NEW r \in Resolvers, NEW result \in {"ok"} \union Errors,
           Returned(r, result), call[r].at \in InPool, UNCHANGED <<setting, working, cache, warm>>
    PROVE  DohInv' /\ CallInv' /\ call'[r].at \notin InPool
           /\ \A q \in Resolvers \ {r} : call'[q] = call[q]
  <1>1. setting.proxied /\ call[r].at \in InPool \union {"request"}
    BY Proxied
  <1>2. /\ lastServerIdx' \in 0 .. setting.servers - 1
        /\ \E d \in CallSet : /\ Become(r, d) /\ Kind(d) /\ Blames(d) /\ d.op = call[r].op
                              /\ d.at \in {"answered", "request", "failed"}
    BY <1>1, ReturnedFacts
  <1>3. PICK d \in CallSet : /\ Become(r, d) /\ Kind(d) /\ Blames(d) /\ d.op = call[r].op
                             /\ d.at \in {"answered", "request", "failed"}
    BY <1>2
  <1>4. CallInv'
    <2>1. warm' \in WarmSet /\ warm'.used = warm.used /\ UNCHANGED <<setting, working>>
      BY DEF CallInv
    <2> QED
      BY <1>3, <2>1, Moves
  <1>5. call'[r] = d /\ \A q \in Resolvers \ {r} : call'[q] = call[q]
    BY <1>3 DEF CallInv, Become
  <1> QED
    BY <1>2, <1>3, <1>4, <1>5 DEF DohInv, InPool

LEMMA AcquireStep ==
    ASSUME IInv, NEW r \in Resolvers, Acquire(r)
    PROVE  IInv'
  <1>1. /\ DohInv /\ CallInv /\ ConnInv /\ setting.proxied /\ call[r].at = "request" /\ open
        /\ Goto(r, "acquired")
        /\ UNCHANGED <<setting, working, lastServerIdx, cache, open, pooling, mu, warm>>
        /\ stranded' = FALSE /\ streams' = streams \union {r}
        /\ on' = [on EXCEPT ![r] = TRUE] /\ token' = [token EXCEPT ![r] = FALSE]
    BY DEF IInv, Acquire, dohVars, At
  <1>2. \/ idle > 0 /\ idle' = idle - 1 /\ early' = early
        \/ idle = 0 /\ setting.multiplex /\ idle' = idle /\ early' = (early \/ pooling)
    BY DEF Acquire
  <1>3. "acquired" \in InPool
    BY DEF InPool
  <1>4. CallInv' /\ call'[r].at = "acquired" /\ \A q \in Resolvers \ {r} : call'[q] = call[q]
    BY <1>1, <1>3, GotoGoesOn
  <1>5. on'[r] /\ \A q \in Resolvers \ {r} : on'[q] = on[q]
    BY <1>1 DEF ConnInv, ConnType
  <1>6. ConnType'
    <2>1. idle \in 0 .. 2 /\ early \in BOOLEAN /\ pooling \in BOOLEAN
      BY <1>1 DEF ConnInv, ConnType
    <2>2. idle' \in 0 .. 2
      BY <1>2, <2>1
    <2>3. early' \in BOOLEAN
      BY <1>2, <2>1
    <2> QED
      BY <1>1, <2>2, <2>3 DEF ConnInv, ConnType
  <1>7. IdleUnused' /\ PoolingInv'
    <2>1. /\ idle \in 0 .. 2
          /\ early => setting.multiplex
          /\ pooling => idle <= 1
          /\ pooling /\ ~early => idle = 0
          /\ idle > 0 /\ ~early => idle = 1
      BY <1>1 DEF ConnInv, ConnType, PoolingInv, IdleUnused
    <2>0. idle' <= idle /\ (idle' > 0 => idle > 1)
      BY <1>2, <2>1
    <2>4. (idle > 1 => early) /\ (early => early')
      <3>1. idle > 1 => idle > 0 /\ idle # 1
        BY <2>1
      <3> QED
        BY <1>2, <2>1, <3>1
    <2>5. early' => setting'.multiplex
      BY <1>1, <1>2, <2>1
    <2>2. /\ idle' > 0 => early'
          /\ early' => setting'.multiplex
      BY <2>0, <2>4, <2>5
    <2>6. pooling' => pooling /\ idle <= 1
      BY <1>1, <2>1
    <2>7. pooling' => idle' <= 1
      <3>1. idle' \in Int
        BY <1>2, <2>1
      <3>2. idle <= 1 => idle' <= 1
        BY <2>0, <2>1, <3>1
      <3> QED
        BY <2>6, <3>2
    <2>8. pooling' => early'
      <3>1. ASSUME pooling, idle > 0 PROVE early
        BY <2>1, <3>1
      <3>2. ASSUME pooling, idle = 0 PROVE early'
        <4>1. ~(idle > 0)
          BY <3>2
        <4>2. early' = (early \/ pooling)
          BY <1>2, <4>1
        <4> QED
          BY <3>2, <4>2
      <3>3. idle > 0 \/ idle = 0
        BY <2>1
      <3> QED
        BY <2>4, <2>6, <3>1, <3>2, <3>3
    <2>3. /\ pooling' => idle' <= 1
          /\ pooling' => early'
      BY <2>7, <2>8
    <2> QED
      BY <2>2, <2>3 DEF IdleUnused, PoolingInv
  <1>8. StreamInv'
    BY <1>1, <1>3, <1>4, <1>5 DEF ConnInv, ConnType, StreamInv, Before, WithStream
  <1>9. ReturnedOrStranded'
    BY <1>3, <1>4, <1>5 DEF ReturnedOrStranded
  <1> QED
    BY <1>1, <1>4, <1>6, <1>7, <1>8, <1>9 DEF IInv, DohInv, ConnInv

LEMMA SpinStep ==
    ASSUME IInv, NEW r \in Resolvers, Spin(r)
    PROVE  IInv'
  <1>1. /\ DohInv /\ CallInv /\ ConnInv /\ mu' = r
        /\ UNCHANGED <<setting, working, lastServerIdx, cache, call, open, pooling, idle, early,
                       streams, on,
                       token, stranded, warm>>
    BY DEF IInv, Spin, dohVars
  <1>2. DohInv' /\ CallInv'
    BY <1>1 DEF DohInv, CallInv, CallSet, WarmSet, SlotInv, Tasks, Kind, Blames, Asked
  <1>3. ConnInv'
    BY <1>1 DEF ConnInv, ConnType, StreamInv, PoolingInv, IdleUnused, ReturnedOrStranded
  <1> QED
    BY <1>2, <1>3 DEF IInv

\* Register, WriteConnect, Connected, ExchangeFails, BadStatus, GoodStatus,
\* ReadBody: the request keeps its connection and its stream.
LEMMA Keeps ==
    ASSUME IInv, NEW r \in Resolvers, NEW step \in Before,
           call[r].at \in WithStream, step \in WithStream \/ step \in {"unregister", "badUnregister"},
           NEW d, Become(r, d),
           \/ d = [call[r] EXCEPT !.at = step]
           \/ \E whole \in BOOLEAN : d = [call[r] EXCEPT !.at = step, !.whole = whole],
           UNCHANGED <<setting, working, lastServerIdx, cache, poolVars, streams, on, stranded, warm>>,
           token' \in [Resolvers -> BOOLEAN]
    PROVE  IInv'
  <1>1. DohInv /\ CallInv /\ ConnInv /\ step \in InPool /\ call[r].at \in InPool
    BY DEF IInv, Before, WithStream, InPool
  <1>2. setting.proxied
    BY <1>1, Proxied
  <1>3. CallInv' /\ call'[r].at = step /\ \A q \in Resolvers \ {r} : call'[q] = call[q]
    BY <1>1, <1>2, GoesOn
  <1>0. UNCHANGED <<open, pooling, idle, early, mu>>
    BY DEF poolVars
  <1>4. ConnType' /\ PoolingInv' /\ IdleUnused'
    BY <1>0, <1>1 DEF ConnInv, ConnType, PoolingInv, IdleUnused
  <1>5. StreamInv'
    BY <1>0, <1>1, <1>3 DEF ConnInv, ConnType, StreamInv
  <1>6. ReturnedOrStranded'
    BY <1>0, <1>1, <1>3 DEF ConnInv, ReturnedOrStranded
  <1> QED
    BY <1>1, <1>3, <1>4, <1>5, <1>6 DEF IInv, DohInv, ConnInv

\* One step of a request that stays in the exchange.
ExchangeStep(r) ==
    \/ Register(r)
    \/ WriteConnect(r)
    \/ Connected(r)
    \/ ExchangeFails(r)
    \/ BadStatus(r)
    \/ GoodStatus(r)
    \/ ReadBody(r)

LEMMA KeepsStep ==
    ASSUME IInv, NEW r \in Resolvers, ExchangeStep(r)
    PROVE  IInv'
  <1>1. /\ UNCHANGED <<setting, working, lastServerIdx, cache, poolVars, streams, on, stranded, warm>>
        /\ token' \in [Resolvers -> BOOLEAN] /\ call[r].at \in WithStream
    <2>1. token \in [Resolvers -> BOOLEAN]
      BY DEF IInv, ConnInv, ConnType
    <2>2. call[r].at \in WithStream
      BY DEF WithStream, ExchangeStep, At, Register, WriteConnect, Connected, ExchangeFails, BadStatus,
             GoodStatus, ReadBody
    <2>3. UNCHANGED <<setting, dohVars, poolVars, streams, on, stranded, warm>>
      BY DEF ExchangeStep, LeaveExchange, connVars, Register, WriteConnect, Connected, ExchangeFails,
             BadStatus, GoodStatus, ReadBody
    <2>4. token' = token \/ token' = [token EXCEPT ![r] = FALSE]
      BY DEF ExchangeStep, LeaveExchange, connVars, Register, WriteConnect, Connected, ExchangeFails,
             BadStatus, GoodStatus, ReadBody
    <2> QED
      BY <2>1, <2>2, <2>3, <2>4 DEF dohVars
  <1>2. \/ \E step \in WithStream \union {"unregister", "badUnregister"} : Goto(r, step)
        \/ ReadBody(r)
    BY DEF WithStream, ExchangeStep, LeaveExchange, Register, WriteConnect, Connected, ExchangeFails,
           BadStatus, GoodStatus
  <1>3. ASSUME NEW step \in WithStream \union {"unregister", "badUnregister"}, Goto(r, step)
        PROVE  IInv'
    <2> DEFINE d == [call[r] EXCEPT !.at = step]
    <2>1. Become(r, d) /\ step \in Before
      BY <1>3 DEF Goto, Become, Before
    <2>2. d = [call[r] EXCEPT !.at = step]
      OBVIOUS
    <2> HIDE DEF d
    <2> QED
      BY <1>1, <2>1, <2>2, Keeps
  <1>4. ASSUME ReadBody(r)
        PROVE  IInv'
    <2>1. PICK whole \in BOOLEAN :
             Become(r, [call[r] EXCEPT !.at = "unregister", !.whole = whole])
      BY <1>4 DEF ReadBody
    <2> DEFINE d == [call[r] EXCEPT !.at = "unregister", !.whole = whole]
    <2>2. Become(r, d) /\ \E w \in BOOLEAN : d = [call[r] EXCEPT !.at = "unregister", !.whole = w]
      BY <2>1
    <2>3. "unregister" \in Before
      BY DEF Before
    <2> HIDE DEF d
    <2> QED
      BY <1>1, <2>2, <2>3, Keeps
  <1> QED
    BY <1>2, <1>3, <1>4

LEMMA WorkerClosesStep ==
    ASSUME IInv, NEW r \in Resolvers, WorkerCloses(r)
    PROVE  IInv'
  <1>1. /\ DohInv /\ CallInv /\ ConnInv /\ token' = [token EXCEPT ![r] = TRUE]
        /\ UNCHANGED <<setting, working, lastServerIdx, cache, call, open, pooling, idle, early, mu,
                       streams, on,
                       stranded, warm>>
    BY DEF IInv, WorkerCloses, dohVars, poolVars
  <1>2. DohInv' /\ ConnInv'
    BY <1>1 DEF DohInv, ConnInv, ConnType, StreamInv, PoolingInv, IdleUnused, ReturnedOrStranded
  <1>3. CallInv'
    BY <1>1 DEF CallInv, CallSet, WarmSet, SlotInv, Tasks, Kind, Blames, Asked
  <1> QED
    BY <1>2, <1>3 DEF IInv

\* What RetireConnection leaves.
LEMMA DeadFacts ==
    ASSUME NEW r, Dead(r)
    PROVE  ConnInv'
  <1>1. /\ open' = FALSE /\ pooling' = FALSE /\ early' = FALSE /\ stranded' = FALSE
        /\ idle' = 0 /\ mu' = NoResolver /\ streams' = {}
        /\ on' \in [Resolvers -> BOOLEAN]
        /\ \A q \in Resolvers : ~on'[q]
    BY DEF Dead
  <1>2. token' \in [Resolvers -> BOOLEAN]
    BY DEF Dead
  <1> QED
    <2>1. ConnType'
      <3>1. /\ open' \in BOOLEAN /\ pooling' \in BOOLEAN /\ early' \in BOOLEAN /\ stranded' \in BOOLEAN
            /\ streams' \subseteq Resolvers /\ mu' \in Resolvers \union {NoResolver}
        BY <1>1
      <3>2. idle' \in 0 .. 2
        BY <1>1
      <3> QED
        BY <1>1, <1>2, <3>1, <3>2 DEF ConnType
    <2>2. StreamInv' /\ PoolingInv' /\ IdleUnused' /\ ReturnedOrStranded'
      BY <1>1 DEF StreamInv, PoolingInv, IdleUnused, ReturnedOrStranded
    <2> QED
      BY <2>1, <2>2 DEF ConnInv

\* A request that ends without its stream on the connection, which others use.
LEMMA EndsUnused ==
    ASSUME IInv, CallInv', NEW r \in Resolvers, call'[r].at \notin InPool,
           \A q \in Resolvers \ {r} : call'[q] = call[q],
           ConnType', UNCHANGED <<setting, open, pooling, early>>,
           idle' = idle \/ (idle = 0 /\ idle' = 1 /\ on[r] /\ streams' = {}),
           streams' = streams \ {r}, ~on'[r], \A q \in Resolvers \ {r} : on'[q] = on[q],
           stranded => stranded', on[r] /\ streams' = {} => idle' > 0 \/ stranded'
    PROVE  ConnInv'
  <1>1. ConnInv
    BY DEF IInv
  <1>2. IdleUnused'
    <2>1. CASE idle' = idle
      BY <1>1, <2>1 DEF ConnInv, IdleUnused
    <2>2. CASE idle' = 1 /\ streams' = {}
      BY <2>2 DEF IdleUnused
    <2> QED
      BY <2>1, <2>2
  <1>3. StreamInv'
    BY <1>1 DEF ConnInv, ConnType, StreamInv
  <1>4. PoolingInv'
    <2>1. CASE idle' = idle
      BY <1>1, <2>1 DEF ConnInv, PoolingInv
    <2>2. CASE idle' = 1 /\ on[r]
      BY <1>1, <2>2 DEF ConnInv, PoolingInv
    <2> QED
      BY <2>1, <2>2
  <1>5. ReturnedOrStranded'
    <2> SUFFICES ASSUME open, ~(idle' > 0), ~pooling, ~stranded'
                 PROVE  \E q \in Resolvers : on'[q] /\ call'[q].at \in InPool
      BY DEF ReturnedOrStranded
    <2>1. PICK q \in Resolvers : on[q] /\ call[q].at \in InPool
      BY <1>1 DEF ConnInv, ConnType, ReturnedOrStranded
    <2>2. CASE q # r
      BY <2>1, <2>2
    <2>3. CASE q = r
      <3>1. PICK x \in streams : x # r
        BY <2>1, <2>3
      <3>2. x \in Resolvers /\ on[x] /\ call[x].at \in InPool
        BY <1>1, <3>1 DEF ConnInv, ConnType, StreamInv
      <3> QED
        BY <3>1, <3>2
    <2> QED
      BY <2>2, <2>3
  <1> QED
    BY <1>2, <1>3, <1>4, <1>5 DEF ConnInv

LEMMA RetireStep ==
    ASSUME IInv, NEW r \in Resolvers, Retire(r)
    PROVE  IInv'
  <1>1. /\ DohInv /\ CallInv /\ ConnInv /\ call[r].at \in {"registered", "waiting"}
        /\ UNCHANGED <<setting, working, cache, warm>>
    BY DEF IInv, Retire, At
  <1>2. PICK result \in Errors : Returned(r, result)
    BY DEF Retire, Fail
  <1>3. /\ DohInv' /\ CallInv' /\ call'[r].at \notin InPool
        /\ \A q \in Resolvers \ {r} : call'[q] = call[q]
    <2>1. call[r].at \in InPool
      BY <1>1 DEF InPool
    <2> QED
      BY <1>1, <1>2, <2>1, Ends
  <1>4. CASE on[r]
    BY <1>3, <1>4, DeadFacts DEF Retire, IInv
  <1>5. CASE ~on[r]
    <2>1. /\ token' = [token EXCEPT ![r] = FALSE]
          /\ UNCHANGED <<open, pooling, idle, early, mu, streams, on, stranded>>
      BY <1>5 DEF Retire, poolVars
    <2>2. ConnType' /\ streams' = streams \ {r}
      BY <1>1, <1>5, <2>1 DEF ConnInv, ConnType, StreamInv
    <2>3. ConnInv'
      BY <1>1, <1>3, <1>5, <2>1, <2>2, EndsUnused
    <2> QED
      BY <1>3, <2>3 DEF IInv
  <1> QED
    BY <1>4, <1>5

LEMMA ClosedEarlyStep ==
    ASSUME IInv, NEW r \in Resolvers, ClosedEarly(r)
    PROVE  IInv'
  <1>1. /\ DohInv /\ CallInv /\ ConnInv /\ call[r].at = "waiting"
        /\ UNCHANGED <<setting, working, cache, warm, open, pooling, idle, early, mu>>
        /\ streams' = streams \ {r}
        /\ stranded' = (stranded \/ (on[r] /\ streams = {r}))
        /\ on' = [on EXCEPT ![r] = FALSE] /\ token' = [token EXCEPT ![r] = FALSE]
    BY DEF IInv, ClosedEarly, At, poolVars
  <1>2. PICK result \in Errors : Returned(r, result)
    BY DEF ClosedEarly, Fail
  <1>3. /\ DohInv' /\ CallInv' /\ call'[r].at \notin InPool
        /\ \A q \in Resolvers \ {r} : call'[q] = call[q]
    <2>1. call[r].at \in InPool
      BY <1>1 DEF InPool
    <2> QED
      BY <1>1, <1>2, <2>1, Ends
  <1>4. ConnType' /\ ~on'[r] /\ \A q \in Resolvers \ {r} : on'[q] = on[q]
    BY <1>1 DEF ConnInv, ConnType
  <1>5. on[r] /\ streams' = {} => stranded'
    BY <1>1 DEF ConnInv, StreamInv, WithStream
  <1>6. ConnInv'
    BY <1>1, <1>3, <1>4, <1>5, EndsUnused
  <1> QED
    BY <1>3, <1>6 DEF IInv

LEMMA UnregisterStep ==
    ASSUME IInv, NEW r \in Resolvers, UnregisterStream(r)
    PROVE  IInv'
  <1> DEFINE step == IF At(r, "unregister") THEN "release" ELSE "badRelease"
  <1>1. /\ DohInv /\ CallInv /\ ConnInv /\ call[r].at \in {"unregister", "badUnregister"}
        /\ UNCHANGED <<setting, working, lastServerIdx, cache, open, pooling, idle, early, mu, on, token,
                       stranded, warm>>
        /\ streams' = streams \ {r} /\ Goto(r, step)
    BY DEF IInv, UnregisterStream, At, dohVars, poolVars
  <1>2. step \in InPool /\ step \notin WithStream /\ call[r].at \in InPool
    BY <1>1 DEF InPool, WithStream
  <1> HIDE DEF step
  <1>3. CallInv' /\ call'[r].at = step /\ \A q \in Resolvers \ {r} : call'[q] = call[q]
    BY <1>1, <1>2, Proxied, GotoGoesOn
  <1>4. ConnType' /\ PoolingInv' /\ IdleUnused'
    BY <1>1 DEF ConnInv, ConnType, PoolingInv, IdleUnused
  <1>5. StreamInv'
    BY <1>1, <1>2, <1>3 DEF ConnInv, ConnType, StreamInv
  <1>6. ReturnedOrStranded'
    BY <1>1, <1>2, <1>3 DEF ConnInv, ReturnedOrStranded
  <1> QED
    BY <1>1, <1>3, <1>4, <1>5, <1>6 DEF IInv, DohInv, ConnInv

\* What ReleaseConnection does to the pool.
LEMMA ReturnFacts ==
    ASSUME ConnInv, NEW r \in Resolvers, ReturnConnection(r)
    PROVE  /\ UNCHANGED <<open, pooling, early, mu>>
           /\ idle' = idle \/ (idle = 0 /\ idle' = 1 /\ on[r] /\ streams = {})
           /\ on[r] /\ streams = {} => idle' > 0
           /\ idle' \in 0 .. 2
  BY DEF ConnInv, ConnType, ReturnConnection, NoStreams

LEMMA ReleaseInnerStep ==
    ASSUME IInv, NEW r \in Resolvers, ReleaseInner(r)
    PROVE  IInv'
  <1>1. /\ DohInv /\ CallInv /\ ConnInv /\ call[r].at = "badRelease"
        /\ UNCHANGED <<setting, working, lastServerIdx, cache, streams, on, token, stranded, warm>>
        /\ ReturnConnection(r) /\ Goto(r, "unregister")
    BY DEF IInv, ReleaseInner, At, dohVars
  <1>2. "unregister" \in InPool /\ "unregister" \notin WithStream /\ call[r].at \in InPool
    BY <1>1 DEF InPool, WithStream
  <1>3. CallInv' /\ call'[r].at = "unregister" /\ \A q \in Resolvers \ {r} : call'[q] = call[q]
    BY <1>1, <1>2, Proxied, GotoGoesOn
  <1>4. /\ UNCHANGED <<open, pooling, early, mu>>
        /\ idle' = idle \/ (idle = 0 /\ idle' = 1 /\ on[r] /\ streams = {})
        /\ idle' \in 0 .. 2
    BY <1>1, ReturnFacts
  <1>5. ConnType'
    BY <1>1, <1>4 DEF ConnInv, ConnType
  <1>6. r \notin streams
    BY <1>1 DEF ConnInv, StreamInv, Before, WithStream
  <1>7. StreamInv'
    BY <1>1, <1>2, <1>3, <1>4, <1>6 DEF ConnInv, ConnType, StreamInv
  <1>8. PoolingInv' /\ IdleUnused'
    <2>1. CASE idle' = idle
      BY <1>1, <1>4, <2>1 DEF ConnInv, PoolingInv, IdleUnused
    <2>2. CASE idle' = 1 /\ on[r] /\ streams = {}
      BY <1>1, <1>4, <2>2 DEF ConnInv, PoolingInv, IdleUnused
    <2> QED
      BY <1>4, <2>1, <2>2
  <1>9. ReturnedOrStranded'
    <2>1. CASE idle' = idle
      BY <1>1, <1>2, <1>3, <1>4, <2>1 DEF ConnInv, ReturnedOrStranded
    <2>2. CASE idle' = 1
      BY <2>2 DEF ReturnedOrStranded
    <2> QED
      BY <1>4, <2>1, <2>2
  <1> QED
    BY <1>1, <1>3, <1>5, <1>7, <1>8, <1>9 DEF IInv, DohInv, ConnInv

LEMMA ReleaseStep ==
    ASSUME IInv, NEW r \in Resolvers, ReleaseConnection(r)
    PROVE  IInv'
  <1>1. /\ DohInv /\ CallInv /\ ConnInv /\ call[r].at = "release"
        /\ UNCHANGED <<setting, working, cache, streams, token, stranded, warm>>
        /\ ReturnConnection(r) /\ on' = [on EXCEPT ![r] = FALSE]
    BY DEF IInv, ReleaseConnection, At
  <1>2. PICK result \in {"ok"} \union Errors : Returned(r, result)
    BY DEF ReleaseConnection, Fail
  <1>3. /\ DohInv' /\ CallInv' /\ call'[r].at \notin InPool
        /\ \A q \in Resolvers \ {r} : call'[q] = call[q]
    <2>1. call[r].at \in InPool
      BY <1>1 DEF InPool
    <2> QED
      BY <1>1, <1>2, <2>1, Ends
  <1>4. /\ UNCHANGED <<open, pooling, early, mu>>
        /\ idle' = idle \/ (idle = 0 /\ idle' = 1 /\ on[r] /\ streams = {})
        /\ on[r] /\ streams = {} => idle' > 0
        /\ idle' \in 0 .. 2
    BY <1>1, ReturnFacts
  <1>5. ConnType' /\ ~on'[r] /\ \A q \in Resolvers \ {r} : on'[q] = on[q]
    BY <1>1, <1>4 DEF ConnInv, ConnType
  <1>6. ConnInv'
    <2>1. r \notin streams
      BY <1>1 DEF ConnInv, StreamInv, Before, WithStream
    <2>2. streams' = streams \ {r} /\ streams' = streams
      BY <1>1, <2>1
    <2> QED
      BY <1>1, <1>3, <1>4, <1>5, <2>2, EndsUnused
  <1> QED
    BY <1>3, <1>6 DEF IInv

LEMMA PoolStep ==
    ASSUME IInv, ConnectionDies \/ Redial \/ AddToPool
    PROVE  IInv'
  <1>1. DohInv /\ CallInv /\ ConnInv /\ UNCHANGED <<setting, working, lastServerIdx, cache, call, warm>>
    BY DEF IInv, ConnectionDies, Redial, AddToPool, dohVars
  <1>2. DohInv' /\ CallInv'
    BY <1>1 DEF DohInv, CallInv, CallSet, WarmSet, SlotInv, Tasks, Kind, Blames, Asked
  <1>3. CASE ConnectionDies
    BY <1>2, <1>3, DeadFacts DEF ConnectionDies, IInv
  <1>4. CASE Redial
    <2>1. /\ open' = TRUE /\ pooling' = TRUE /\ ~open
          /\ UNCHANGED <<idle, early, mu, streams, on, token, stranded>>
      BY <1>4 DEF Redial
    <2>2. idle = 0 /\ \A r \in Resolvers : ~on[r]
      BY <1>1, <2>1 DEF ConnInv, StreamInv
    <2>3. ConnType' /\ StreamInv'
      BY <1>1, <2>1 DEF ConnInv, ConnType, StreamInv
    <2>4. PoolingInv' /\ IdleUnused' /\ ReturnedOrStranded'
      BY <1>1, <2>1, <2>2 DEF ConnInv, PoolingInv, IdleUnused, ReturnedOrStranded
    <2> QED
      BY <1>2, <2>3, <2>4 DEF IInv, ConnInv
  <1>5. CASE AddToPool
    <2>1. /\ pooling /\ pooling' = FALSE /\ idle' = idle + 1
          /\ UNCHANGED <<open, early, mu, streams, on, token, stranded>>
      BY <1>5 DEF AddToPool
    <2>2. idle \in 0 .. 1
      BY <1>1, <2>1 DEF ConnInv, ConnType, PoolingInv
    <2>3. ConnType'
      <3>1. idle' \in 0 .. 2
        BY <2>1, <2>2
      <3>2. pooling' \in BOOLEAN
        BY <2>1
      <3> QED
        BY <1>1, <2>1, <3>1, <3>2 DEF ConnInv, ConnType
    <2>4. StreamInv'
      BY <1>1, <2>1 DEF ConnInv, StreamInv
    <2>5. ~early => idle' = 1 /\ streams = {}
      <3>1. ASSUME ~early PROVE idle = 0 /\ streams = {}
        BY <1>1, <2>1, <3>1 DEF ConnInv, ConnType, PoolingInv, StreamInv
      <3> QED
        BY <2>1, <3>1
    <2>6. PoolingInv' /\ IdleUnused'
      BY <1>1, <2>1, <2>5 DEF ConnInv, PoolingInv, IdleUnused
    <2>7. ReturnedOrStranded'
      BY <2>1, <2>2 DEF ReturnedOrStranded
    <2> QED
      BY <1>2, <2>3, <2>4, <2>6, <2>7 DEF IInv, ConnInv
  <1> QED
    BY <1>3, <1>4, <1>5
-----------------------------------------------------------------------------
(* The specification *)

LEMMA StepInvariant ==
    ASSUME IInv, NEW r \in Resolvers, Step(r)
    PROVE  IInv'
  <1>1. CASE OwnStep(r)
    BY <1>1, HitStep, MissStep, StoreStep, GiveUpStep, AskSystemStep, StopEarlyStep, DirectRequestStep,
       AcquireFailsStep, KeepsStep, RetireStep, ClosedEarlyStep, UnregisterStep, ReleaseInnerStep,
       ReleaseStep DEF OwnStep, ExchangeStep
  <1>2. CASE ~OwnStep(r)
    BY <1>2, ResolveStep, DispatchStep, AcquireStep, SpinStep, WorkerClosesStep, KeepsStep DEF Step,
       ExchangeStep
  <1> QED
    BY <1>1, <1>2

\* Every step keeps the invariant.
THEOREM Invariance == Spec => []IInv
  <1>1. Init => IInv
    BY InitInvariant
  <1>2. IInv /\ [Next]_vars => IInv'
    <2> SUFFICES ASSUME IInv, [Next]_vars
                 PROVE  IInv'
      OBVIOUS
    <2>1. CASE \E r \in Resolvers : Step(r)
      BY <2>1, StepInvariant
    <2>2. CASE Expire \/ ServersChange \/ WarmupLate \/ WarmupEnd
      BY <2>2, SurroundingsStep
    <2>3. CASE ConnectionDies \/ Redial \/ AddToPool
      BY <2>3, PoolStep
    <2>4. CASE UNCHANGED vars
      <3>1. UNCHANGED <<setting, working, lastServerIdx, cache, call, open, pooling, idle, early, mu,
                        streams,
                        on, token, stranded, warm>>
        BY <2>4 DEF vars, dohVars, connVars, poolVars
      <3> QED
        BY <3>1 DEF IInv, DohInv, CallInv, CallSet, WarmSet, SlotInv, Tasks, Kind, Blames, Asked, ConnInv,
                    ConnType, StreamInv, PoolingInv, IdleUnused, ReturnedOrStranded
    <2> QED
      BY <2>1, <2>2, <2>3, <2>4 DEF Next
  <1> QED
    BY <1>1, <1>2, PTL DEF Spec

\* Every variable has its type: in particular the slots of Warmup's semaphore
\* (dns/cache.go) never exceed Sem nor go below zero, on whatever path a task ends.
THEOREM TypeCorrect == Spec => []TypeOK
  BY Invariance, TypeInvariant, PTL

\* However many servers there are, and wherever concurrent resolutions put the
\* starting point, DoHClient.Resolve does not fail while one of them answers.
THEOREM EveryServer == Spec => []AnyServerServes
  <1>1. IInv => AnyServerServes
    BY DEF IInv, CallInv, Blames, AnyServerServes
  <1> QED
    BY <1>1, Invariance, PTL

\* RoundTrip and the body it returns never put a connection with streams back into
\* the idle pool, nor twice, and no dial appends one that is used, unless, with
\* multiplexing, a request took a stream of it in the dial's own window, between
\* managerByConn and p.pool: for any number of requests and any limit.
THEOREM IdleIsUnused == Spec => []IdleUnused
  <1>1. IInv => IdleUnused
    BY DEF IInv, ConnInv
  <1> QED
    BY <1>1, Invariance, PTL

\* Every way out of RoundTrip returns the connection or leaves it to a request
\* that will, but for the CLOSE instead of CONNECTED.
THEOREM ConnectionReturned == Spec => []ReturnedOrStranded
  <1>1. IInv => ReturnedOrStranded
    BY DEF IInv, ConnInv
  <1> QED
    BY <1>1, Invariance, PTL
=============================================================================
