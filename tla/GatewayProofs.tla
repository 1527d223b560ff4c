---------------------------- MODULE GatewayProofs ----------------------------
(***************************************************************************)
(* The usage tables stay honest, and previous_response_id goes home, for   *)
(* any number of requests, any configurations and bounds.                  *)
(***************************************************************************)
EXTENDS Gateway, TLAPS

-----------------------------------------------------------------------------
(* Sequences of whatever elements.                                         *)
IsSequence(s) == \E S : s \in Seq(S)

LEMMA EmptyIsSequence == IsSequence(<<>>)
BY <<>> \in Seq({}) DEF IsSequence

LEMMA ConcatIsSequence ==
  ASSUME NEW s, NEW t, IsSequence(s), IsSequence(t)
  PROVE  IsSequence(s \o t)
<1>1. PICK S : s \in Seq(S)
  BY DEF IsSequence
<1>2. PICK T : t \in Seq(T)
  BY DEF IsSequence
<1>3. s \in Seq(S \cup T) /\ t \in Seq(S \cup T)
  BY <1>1, <1>2
<1>4. s \o t \in Seq(S \cup T)
  BY <1>3
<1> QED
  BY <1>4 DEF IsSequence

LEMMA OneOrTwoIsSequence ==
  ASSUME NEW c PROVE IsSequence(<<c>>) /\ IsSequence(<<c, c>>)
<1>1. <<c>> \in Seq({c}) /\ <<c, c>> \in Seq({c})
  OBVIOUS
<1> QED
  BY <1>1 DEF IsSequence

LEMMA AppendFacts ==
  ASSUME NEW s, NEW e, IsSequence(s)
  PROVE  /\ IsSequence(Append(s, e))
         /\ \A i \in DOMAIN Append(s, e) :
              \/ i \in DOMAIN s /\ Append(s, e)[i] = s[i]
              \/ i = Len(s) + 1 /\ Append(s, e)[i] = e
<1>1. PICK S : s \in Seq(S)
  BY DEF IsSequence
<1>2. s \in Seq(S \cup {e})
  BY <1>1
<1>3. Append(s, e) \in Seq(S \cup {e})
  BY <1>2
<1>4. DOMAIN Append(s, e) = 1 .. Len(s) + 1 /\ DOMAIN s = 1 .. Len(s) /\ Len(s) \in Nat
  BY <1>2
<1>5. \A i \in 1 .. Len(s) : Append(s, e)[i] = s[i]
  BY <1>2
<1>6. Append(s, e)[Len(s) + 1] = e
  BY <1>2
<1> QED
  BY <1>3, <1>4, <1>5, <1>6 DEF IsSequence

LEMMA TailFacts ==
  ASSUME NEW s, IsSequence(s), s # <<>>
  PROVE  /\ IsSequence(Tail(s))
         /\ 1 \in DOMAIN s
         /\ Head(s) = s[1]
         /\ \A i \in DOMAIN Tail(s) :
              i \in Nat /\ i + 1 \in DOMAIN s /\ i + 1 # 1 /\ Tail(s)[i] = s[i + 1]
<1>1. PICK S : s \in Seq(S)
  BY DEF IsSequence
<1>2. Tail(s) \in Seq(S)
  BY <1>1
<1>3. 1 \in DOMAIN s /\ Head(s) = s[1]
  BY <1>1
<1>4. \A i \in DOMAIN Tail(s) :
        i \in Nat /\ i + 1 \in DOMAIN s /\ i + 1 # 1 /\ Tail(s)[i] = s[i + 1]
  BY <1>1
<1> QED
  BY <1>2, <1>3, <1>4 DEF IsSequence

LEMMA LenIsNat ==
  ASSUME NEW s, IsSequence(s)
  PROVE  Len(s) \in Nat /\ DOMAIN s = 1 .. Len(s)
BY DEF IsSequence

-----------------------------------------------------------------------------
(* The usage tables.                                                       *)

Places ==
  {"idle", "route", "purge", "try", "pin", "record", "answer", "log", "done", "dead"}

(* Not only the rows: every record on its way to them is honest, and the   *)
(* writer never counts past the attempts of its record.                    *)
LedgerInv ==
  /\ pc \in [Requests -> Places]
  /\ DOMAIN tried = Requests
  /\ \A r \in Requests : IsSequence(tried[r])
  /\ IsSequence(queue)
  /\ rowNo \in Nat
  /\ \A i \in DOMAIN queue : Honest(queue[i])
  /\ \A rec \in writing \cup rows : Honest(rec)
  /\ \A rec, row \in writing : rec = row
  /\ \A rec \in writing : rowNo <= rec.attempts
  /\ \A t \in tries : t[1] \in Requests /\ pc[t[1]] \in Over /\ t[2] \in DOMAIN tried[t[1]]
  /\ Once

(* What is said of a request whose calls are over stays true. *)
Settled ==
  \A r \in Requests : pc[r] \in Over =>
    pc'[r] \in Over /\ tried'[r] = tried[r] /\ result'[r] = result[r]

LEMMA HonestStays ==
  ASSUME Settled, NEW rec, Honest(rec)
  PROVE  Honest(rec)'
BY DEF Settled, Honest

(* Only Finish, the writer and the end of the process touch the store. *)
LEMMA StoreUntouched ==
  ASSUME LedgerInv, Settled, UNCHANGED usageVars,
         pc' \in [Requests -> Places], DOMAIN tried' = Requests,
         \A r \in Requests : IsSequence(tried'[r])
  PROVE  LedgerInv'
<1>1. UNCHANGED <<queue, writing, rowNo, rows, tries>>
  BY DEF usageVars
<1>2. \A i \in DOMAIN queue' : Honest(queue[i])'
  BY <1>1, HonestStays DEF LedgerInv
<1>3. \A rec \in writing' \cup rows' : Honest(rec)'
  BY <1>1, HonestStays DEF LedgerInv
<1>4. \A t \in tries' : t[1] \in Requests /\ pc'[t[1]] \in Over /\ t[2] \in DOMAIN tried'[t[1]]
  BY <1>1 DEF LedgerInv, Settled
<1>5. Once'
  BY <1>1 DEF LedgerInv, Once
<1> QED
  BY <1>1, <1>2, <1>3, <1>4, <1>5 DEF LedgerInv

LEMMA LedgerInit == Init => LedgerInv
<1> SUFFICES ASSUME Init PROVE LedgerInv
  OBVIOUS
<1>a. pc = [r \in Requests |-> "idle"] /\ tried = [r \in Requests |-> <<>>]
  BY Zenon DEF Init
<1>1. pc \in [Requests -> Places] /\ DOMAIN tried = Requests
  BY <1>a DEF Places
<1>2. \A r \in Requests : IsSequence(tried[r])
  BY <1>a, EmptyIsSequence
<1>3. queue = <<>> /\ writing = {} /\ rowNo = 0 /\ rows = {} /\ tries = {}
  BY DEF Init, UsageInit
<1>4. IsSequence(queue) /\ rowNo \in Nat
  BY <1>3, EmptyIsSequence
<1>5. queue = <<>> => DOMAIN queue = {}
  OBVIOUS
<1>6. writing = {} /\ rows = {} /\ tries = {}
  BY <1>3
<1>7. DOMAIN queue = {}
  BY <1>3, <1>5, Zenon
<1>8. Once
  BY <1>6, <1>7, Zenon DEF Once
<1> QED
  BY <1>1, <1>2, <1>4, <1>6, <1>7, <1>8, Zenon DEF LedgerInv

(* A step of a handler that does not record. *)
LEMMA LedgerHandle ==
  ASSUME LedgerInv, NEW r \in Requests, pc[r] \notin Over,
         pc' = [pc EXCEPT ![r] = pc'[r]], pc'[r] \in Places,
         UNCHANGED usageVars,
         \/ UNCHANGED tried
         \/ \E c : tried' = [tried EXCEPT ![r] = @ \o <<c>>]
         \/ \E c : tried' = [tried EXCEPT ![r] = @ \o <<c, c>>],
         \A q \in Requests : q # r => result'[q] = result[q]
  PROVE  LedgerInv'
<1>1. pc' \in [Requests -> Places]
  BY DEF LedgerInv
<1>2. \A q \in Requests : q # r => pc'[q] = pc[q] /\ tried'[q] = tried[q]
  BY DEF LedgerInv
<1>3. DOMAIN tried' = Requests
  BY DEF LedgerInv
<1>4. IsSequence(tried'[r])
  <2>1. IsSequence(tried[r])
    BY DEF LedgerInv
  <2>2. CASE UNCHANGED tried
    BY <2>1, <2>2
  <2>3. ASSUME NEW c, tried' = [tried EXCEPT ![r] = @ \o <<c>>]
        PROVE  IsSequence(tried'[r])
    <3>1. tried'[r] = tried[r] \o <<c>>
      BY <2>3 DEF LedgerInv
    <3>2. IsSequence(<<c>>)
      BY OneOrTwoIsSequence
    <3>3. IsSequence(tried[r] \o <<c>>)
      BY <2>1, <3>2, ConcatIsSequence
    <3> QED
      BY <3>1, <3>3
  <2>4. ASSUME NEW c, tried' = [tried EXCEPT ![r] = @ \o <<c, c>>]
        PROVE  IsSequence(tried'[r])
    <3>1. tried'[r] = tried[r] \o <<c, c>>
      BY <2>4 DEF LedgerInv
    <3>2. IsSequence(<<c, c>>)
      BY OneOrTwoIsSequence
    <3>3. IsSequence(tried[r] \o <<c, c>>)
      BY <2>1, <3>2, ConcatIsSequence
    <3> QED
      BY <3>1, <3>3
  <2> QED
    BY <2>2, <2>3, <2>4
<1>5. \A q \in Requests : IsSequence(tried'[q])
  BY <1>2, <1>4 DEF LedgerInv
<1>6. Settled
  BY <1>2 DEF Settled
<1> QED
  BY <1>1, <1>3, <1>5, <1>6, StoreUntouched

LEMMA LedgerRecord ==
  ASSUME LedgerInv, NEW r \in Requests, NEW place \in {"answer", "done"},
         pc[r] \in {"record", "log"}, pc' = [pc EXCEPT ![r] = place],
         RecordRequest(Record(r)), UNCHANGED <<tried, result>>
  PROVE  LedgerInv'
<1>1. pc[r] \notin Over /\ RecordRequest(Record(r)) /\ UNCHANGED <<tried, result>>
  BY DEF Over
<1>2. pc' = [pc EXCEPT ![r] = place]
  OBVIOUS
<1>3. pc' \in [Requests -> Places] /\ pc'[r] \in Over
  BY <1>2 DEF LedgerInv, Places, Over
<1>4. Settled
  BY <1>1, <1>2 DEF Settled, LedgerInv
<1>5. ASSUME NEW rec, rec = Record(r) PROVE Honest(rec)'
  <2>1. /\ rec.req = r
        /\ rec.attempts = Len(tried[r])
        /\ rec.provider = IF result[r] = "none" THEN "" ELSE tried[r][Len(tried[r])].provider
    BY <1>5 DEF Record
  <2>2. rec.success <=> result[r] = "completed"
    BY <1>5 DEF Record
  <2>3. tried' = tried /\ result' = result /\ pc'[r] \in Over
    BY <1>1, <1>3
  <2>4. IF result[r] = "none" THEN rec.provider = ""
        ELSE rec.provider = tried[r][Len(tried[r])].provider
    BY <2>1
  <2> QED
    BY <2>1, <2>2, <2>3, <2>4, Zenon DEF Honest
<1>6. \A rec : Honest(rec) => Honest(rec)' /\ rec.req # r
  BY <1>1, <1>4, HonestStays DEF Honest
<1>7. UNCHANGED <<writing, rowNo, rows, tries>>
  BY <1>1 DEF RecordRequest
<1>8. \A t \in tries' : t[1] \in Requests /\ pc'[t[1]] \in Over /\ t[2] \in DOMAIN tried'[t[1]]
  BY <1>1, <1>4, <1>7 DEF LedgerInv, Settled
<1>9. /\ \A rec \in writing' \cup rows' : Honest(rec)' /\ rec.req # r
      /\ \A rec, row \in writing' : rec = row
      /\ \A rec \in writing' : rowNo' <= rec.attempts
      /\ rowNo' \in Nat
      /\ \A rec, row \in writing' \cup rows' : rec.req = row.req => rec = row
  BY <1>6, <1>7 DEF LedgerInv, Once
<1>10. /\ IsSequence(queue')
       /\ \A i \in DOMAIN queue' : Honest(queue[i])'
       /\ \A i, j \in DOMAIN queue' : queue'[i].req = queue'[j].req => i = j
       /\ \A i \in DOMAIN queue' : \A rec \in writing' \cup rows' : queue'[i].req # rec.req
  <2>1. CASE queue' = queue
    BY <2>1, <1>6, <1>7 DEF LedgerInv, Once
  <2>2. CASE queue' = Append(queue, Record(r))
    <3>1. Record(r).req = r
      BY DEF Record
    <3>2. IsSequence(queue)
      BY DEF LedgerInv
    <3>3. /\ IsSequence(queue')
          /\ \A i \in DOMAIN queue' :
               \/ i \in DOMAIN queue /\ queue'[i] = queue[i]
               \/ i = Len(queue) + 1 /\ queue'[i] = Record(r)
      BY <2>2, <3>2, AppendFacts
    <3>4. \A i \in DOMAIN queue : Honest(queue[i]) /\ queue[i].req # r
      BY <1>6 DEF LedgerInv
    <3>5. \A i \in DOMAIN queue' : Honest(queue[i])'
      BY <1>5, <1>6, <3>3, <3>4
    <3>6. \A i, j \in DOMAIN queue' : queue'[i].req = queue'[j].req => i = j
      BY <3>1, <3>3, <3>4 DEF LedgerInv, Once
    <3>7. \A i \in DOMAIN queue' : \A rec \in writing' \cup rows' : queue'[i].req # rec.req
      BY <1>7, <1>9, <3>1, <3>3 DEF LedgerInv, Once
    <3> QED
      BY <3>3, <3>5, <3>6, <3>7
  <2> QED
    BY <1>1, <2>1, <2>2 DEF RecordRequest
<1>11. Once'
  BY <1>9, <1>10 DEF Once
<1>12. DOMAIN tried' = Requests /\ \A q \in Requests : IsSequence(tried'[q])
  BY <1>1 DEF LedgerInv
<1> QED
  BY <1>3, <1>8, <1>9, <1>10, <1>11, <1>12 DEF LedgerInv

LEMMA LedgerTakes ==
  ASSUME LedgerInv, WriterTakes, UNCHANGED <<pc, tried, result>>
  PROVE  LedgerInv'
<1>1. /\ writing = {} /\ queue # <<>> /\ writing' = {Head(queue)} /\ rowNo' = 0
      /\ queue' = Tail(queue) /\ UNCHANGED <<rows, tries>>
  BY DEF WriterTakes
<1>2. Settled
  BY DEF Settled
<1>3. \A rec : Honest(rec) => Honest(rec)'
  BY <1>2, HonestStays
<1>4. /\ IsSequence(queue')
      /\ 1 \in DOMAIN queue
      /\ Head(queue) = queue[1]
      /\ \A i \in DOMAIN queue' :
           i \in Nat /\ i + 1 \in DOMAIN queue /\ i + 1 # 1 /\ queue'[i] = queue[i + 1]
  BY <1>1, TailFacts DEF LedgerInv
<1>5. \A i \in DOMAIN queue : Honest(queue[i])
  BY DEF LedgerInv
<1>6. \A i \in DOMAIN queue' : Honest(queue[i])'
  BY <1>3, <1>4, <1>5
<1>7. \A rec \in writing' \cup rows' : Honest(rec)'
  BY <1>1, <1>3, <1>4, <1>5 DEF LedgerInv
<1>8. \A rec \in writing' : 0 <= rec.attempts
  <2>1. Honest(queue[1])
    BY <1>4, <1>5
  <2>2. IsSequence(tried[queue[1].req]) /\ queue[1].attempts = Len(tried[queue[1].req])
    BY <2>1 DEF Honest, LedgerInv
  <2>3. queue[1].attempts \in Nat
    BY <2>2, LenIsNat
  <2> QED
    BY <1>1, <1>4, <2>3
<1>9. Once'
  <2>1. \A i, j \in DOMAIN queue' : queue'[i].req = queue'[j].req => i = j
    BY <1>4 DEF LedgerInv, Once
  <2>2. \A i \in DOMAIN queue' : \A rec \in writing' \cup rows' : queue'[i].req # rec.req
    BY <1>1, <1>4 DEF LedgerInv, Once
  <2>3. \A rec, row \in writing' \cup rows' : rec.req = row.req => rec = row
    BY <1>1, <1>4 DEF LedgerInv, Once
  <2> QED
    BY <2>1, <2>2, <2>3 DEF Once
<1>10. \A rec, row \in writing' : rec = row
  BY <1>1
<1> QED
  BY <1>1, <1>4, <1>6, <1>7, <1>8, <1>9, <1>10 DEF LedgerInv

LEMMA LedgerInsert ==
  ASSUME LedgerInv, NEW rec \in writing, InsertRow(rec), UNCHANGED <<pc, tried, result>>
  PROVE  LedgerInv'
<1>1. /\ \/ UNCHANGED <<rows, tries>>
         \/ rows' = {row \in rows : row.req # rec.req} \cup {rec} /\ UNCHANGED tries
         \/ rowNo > 0 /\ tries' = tries \cup {<<rec.req, rowNo>>} /\ UNCHANGED rows
      /\ writing' = IF rowNo = rec.attempts THEN {} ELSE writing
      /\ rowNo' = IF rowNo = rec.attempts THEN 0 ELSE rowNo + 1
      /\ UNCHANGED queue
  BY DEF InsertRow
<1>2. Settled
  BY DEF Settled
<1>3. \A old : Honest(old) => Honest(old)'
  BY <1>2, HonestStays
<1>4. Honest(rec) /\ rowNo <= rec.attempts /\ rowNo \in Nat
  BY DEF LedgerInv
<1>5. rec.req \in Requests /\ IsSequence(tried[rec.req]) /\ rec.attempts = Len(tried[rec.req])
  BY <1>4 DEF Honest, LedgerInv
<1>6. rec.attempts \in Nat /\ DOMAIN tried[rec.req] = 1 .. rec.attempts
  BY <1>5, LenIsNat
<1>7. /\ rowNo' \in Nat
      /\ writing' \subseteq writing
      /\ \A old \in writing' : rowNo' <= old.attempts
  BY <1>1, <1>4, <1>6 DEF LedgerInv
<1>8. rows' \subseteq rows \cup {rec}
  BY <1>1
<1>9. \A old \in writing' \cup rows' : Honest(old)'
  BY <1>3, <1>7, <1>8 DEF LedgerInv
<1>10. \A t \in tries' : t[1] \in Requests /\ pc'[t[1]] \in Over /\ t[2] \in DOMAIN tried'[t[1]]
  <2>1. tries' \subseteq tries \/ (rowNo > 0 /\ tries' \subseteq tries \cup {<<rec.req, rowNo>>})
    BY <1>1
  <2>2. pc[rec.req] \in Over
    BY <1>4 DEF Honest
  <2>3. rowNo > 0 => rowNo \in DOMAIN tried[rec.req]
    BY <1>4, <1>6
  <2> QED
    BY <2>1, <2>2, <2>3, <1>5 DEF LedgerInv
<1>11. Once'
  BY <1>1, <1>7, <1>8 DEF LedgerInv, Once
<1>12. \A i \in DOMAIN queue' : Honest(queue[i])'
  BY <1>1, <1>3 DEF LedgerInv
<1> QED
  BY <1>1, <1>7, <1>9, <1>10, <1>11, <1>12 DEF LedgerInv

LEMMA LedgerEnds ==
  ASSUME LedgerInv, Ends
  PROVE  LedgerInv'
<1>1. /\ queue' = <<>> /\ writing' = {} /\ rowNo' = 0
      /\ UNCHANGED <<rows, tries, tried, result>>
  BY DEF Ends, CloseAndReopen
<1>2. pc' = [r \in Requests |-> IF r \in Active THEN "dead" ELSE pc[r]]
  BY DEF Ends
<1>3. pc' \in [Requests -> Places]
  BY <1>2 DEF LedgerInv, Places
<1>4. Settled
  BY <1>1, <1>2, Zenon DEF Settled, Active, Over
<1>5. writing' = {} /\ rowNo' \in Nat /\ UNCHANGED <<rows, tries, tried>>
  BY <1>1
<1>6. IsSequence(queue')
  BY <1>1, EmptyIsSequence
<1>7. queue' = <<>> => DOMAIN queue' = {}
  OBVIOUS
<1>8. DOMAIN queue' = {}
  BY <1>1, <1>7, Zenon
<1>9. \A rec \in rows' : Honest(rec)'
  BY <1>4, <1>5, HonestStays DEF LedgerInv
<1>10. \A t \in tries' : t[1] \in Requests /\ pc'[t[1]] \in Over /\ t[2] \in DOMAIN tried'[t[1]]
  BY <1>4, <1>5 DEF LedgerInv, Settled
<1>11. Once'
  BY <1>5, <1>8 DEF LedgerInv, Once
<1> QED
  BY <1>3, <1>5, <1>6, <1>8, <1>9, <1>10, <1>11 DEF LedgerInv

(* Every action is one of these steps. *)
LEMMA LedgerStep == LedgerInv /\ [Next]_vars => LedgerInv'
<1> SUFFICES ASSUME LedgerInv, [Next]_vars PROVE LedgerInv'
  OBVIOUS
<1>1. ASSUME UNCHANGED <<pc, tried, result, usageVars>> PROVE LedgerInv'
  <2>1. Settled
    BY <1>1 DEF Settled
  <2> QED
    BY <1>1, <2>1, StoreUntouched DEF LedgerInv
<1>2. CASE Tick
  BY <1>1, <1>2 DEF Tick
<1>3. ASSUME NEW new \in Configs, TryReload(new) PROVE LedgerInv'
  BY <1>1, <1>3 DEF TryReload
<1>4. CASE Start
  BY <1>1, <1>4 DEF Start
<1>5. CASE UNCHANGED vars
  BY <1>1, <1>5 DEF vars
<1>6. CASE Ends
  BY <1>6, LedgerEnds
<1>7. CASE Writer
  <2>1. UNCHANGED <<pc, tried, result>>
    BY <1>7 DEF Writer
  <2> QED
    BY <1>7, <2>1, LedgerTakes, LedgerInsert DEF Writer
<1>8. ASSUME NEW r \in Requests, NEW a, Receive(r, a) PROVE LedgerInv'
  <2>1. /\ pc[r] = "idle" /\ pc' = [pc EXCEPT ![r] = "route"]
        /\ UNCHANGED <<tried, result, usageVars>>
    BY <1>8 DEF Receive
  <2>2. pc'[r] = "route"
    BY <2>1 DEF LedgerInv
  <2> QED
    BY <2>1, <2>2, LedgerHandle DEF Places, Over
<1>9. ASSUME NEW r \in Requests, Handle(r) PROVE LedgerInv'
  <2>1. ASSUME pc[r] \notin Over, NEW place \in Places, pc' = [pc EXCEPT ![r] = place],
               UNCHANGED <<tried, result, usageVars>>
        PROVE  LedgerInv'
    <3>1. pc'[r] = place
      BY <2>1 DEF LedgerInv
    <3> QED
      BY <2>1, <3>1, LedgerHandle
  <2>2. CASE RouteFresh(r)
    BY <2>1, <2>2 DEF RouteFresh, Routed, Places, Over
  <2>3. CASE RouteSticky(r)
    <3>1. pc[r] = "route" /\ UNCHANGED <<tried, result, usageVars>>
      BY <2>3 DEF RouteSticky
    <3>2. \E place \in Places : pc' = [pc EXCEPT ![r] = place]
      BY <2>3 DEF RouteSticky, Routed, Return, Places
    <3> QED
      BY <2>1, <3>1, <3>2 DEF Over
  <2>4. CASE RouteUnknown(r)
    BY <2>1, <2>4 DEF RouteUnknown, FirstOnly, Routed, Places, Over
  <2>5. CASE FindExpired(r)
    BY <2>1, <2>5 DEF FindExpired, Places, Over
  <2>6. CASE PurgeExpired(r)
    BY <2>1, <2>6 DEF PurgeExpired, FirstOnly, Routed, Places, Over
  <2>7. CASE CallFails(r)
    <3>1. pc[r] = "try" /\ UNCHANGED <<result, usageVars>>
      BY <2>7 DEF CallFails
    <3>2. \/ \E c : tried' = [tried EXCEPT ![r] = @ \o <<c>>]
          \/ \E c : tried' = [tried EXCEPT ![r] = @ \o <<c, c>>]
      BY <2>7 DEF CallFails, Try
    <3>3. pc' = pc \/ pc' = [pc EXCEPT ![r] = "record"]
      BY <2>7 DEF CallFails
    <3>4. pc' = [pc EXCEPT ![r] = pc'[r]] /\ pc'[r] \in Places
      BY <3>1, <3>3 DEF LedgerInv, Places
    <3> QED
      BY <3>1, <3>2, <3>4, LedgerHandle DEF Over
  <2>8. ASSUME NEW res \in {"completed", "incomplete"},
               CallServes(r, res) \/ StreamServes(r, res)
        PROVE  LedgerInv'
    <3>1. /\ pc[r] = "try" /\ \E place \in {"record", "pin", "log"} : pc' = [pc EXCEPT ![r] = place]
          /\ result' = [result EXCEPT ![r] = res] /\ UNCHANGED usageVars
      BY <2>8 DEF CallServes, StreamServes
    <3>2. \E c : tried' = [tried EXCEPT ![r] = @ \o <<c>>]
      BY <2>8 DEF CallServes, StreamServes, Try
    <3>3. pc' = [pc EXCEPT ![r] = pc'[r]] /\ pc'[r] \in Places
      BY <3>1 DEF LedgerInv, Places
    <3>4. \A q \in Requests : q # r => result'[q] = result[q]
      BY <3>1
    <3> QED
      BY <3>1, <3>2, <3>3, <3>4, LedgerHandle DEF Over
  <2>9. CASE PinStreamed(r)
    BY <2>1, <2>9 DEF PinStreamed, Places, Over
  <2>10. CASE RecordUsage(r)
    BY <2>10, LedgerRecord DEF RecordUsage
  <2>11. CASE Answer(r)
    <3>1. /\ pc[r] = "answer" /\ pc' = [pc EXCEPT ![r] = "done"]
          /\ UNCHANGED <<tried, result, usageVars>>
      BY <2>11 DEF Answer, Return
    <3>2. pc' \in [Requests -> Places] /\ Settled
      BY <3>1 DEF LedgerInv, Places, Settled, Over
    <3> QED
      BY <3>1, <3>2, StoreUntouched DEF LedgerInv
  <2>12. CASE Finish(r)
    BY <2>12, LedgerRecord DEF Finish, Return
  <2> QED
    BY <1>9, <2>2, <2>3, <2>4, <2>5, <2>6, <2>7, <2>8, <2>9, <2>10, <2>11, <2>12 DEF Handle
<1> QED
  BY <1>2, <1>3, <1>4, <1>5, <1>6, <1>7, <1>8, <1>9 DEF Next

(* The rows of the usage tables describe requests whose calls are over as  *)
(* they went (attempts, provider, success), and none twice: whatever       *)
(* RecordRequest drops, whichever statement of insert fails, and whenever  *)
(* the process ends, with any number of requests and any capacity of the   *)
(* queue.                                                                  *)
THEOREM LedgerIsHonest == Spec => []LedgerHonest
<1>1. LedgerInv => LedgerHonest
  BY DEF LedgerInv, LedgerHonest
<1> QED
  BY <1>1, LedgerInit, LedgerStep, PTL DEF Spec

-----------------------------------------------------------------------------
(* previous_response_id.                                                   *)

StickyTypeOK ==
  /\ pc \in [Requests -> Places]
  /\ DOMAIN ask = Requests
  /\ DOMAIN cands = Requests
  /\ DOMAIN tried = Requests
  /\ now \in Nat
  /\ starts \in Nat

(* Completed responses are of requests that are past their calls. *)
Past == {"pin", "record", "answer", "log", "done", "dead"}

OriginsInv ==
  \A id \in DOMAIN origin :
    /\ id \in Requests
    /\ pc[id] \in Past
    /\ origin[id].at \in Nat
    /\ origin[id].start \in Nat
    /\ origin[id].start <= starts

Fresh(id) == origin[id].start = starts /\ ~(now - origin[id].at > TTL)

(* The affinities tell where responses came from, and none that was set    *)
(* and is within its lifetime is missing, for Get removes only expired     *)
(* ones and an affinity is no older than its response.                     *)
AffinityInv ==
  /\ \A id \in DOMAIN aff :
       /\ id \in DOMAIN origin
       /\ aff[id].provider = origin[id].provider
       /\ aff[id].at \in Nat
       /\ origin[id].at <= aff[id].at
  /\ Running => \A id \in DOMAIN origin : Fresh(id) /\ pc[id] # "pin" => id \in DOMAIN aff

(* A stream that has ended is about to be pinned to its origin. *)
PinInv ==
  \A r \in Requests : pc[r] = "pin" =>
    r \in DOMAIN origin /\ Head(cands[r]).provider = origin[r].provider

(* What was pinned when a continuation came in is so ever after. *)
Sure(id) == id \in DOMAIN origin /\ pc[id] # "pin"

(* No response is of the future. *)
TimesInv == \A id \in DOMAIN origin : origin[id].at <= now

SureInv == \A r \in Requests : ask[r].sure => Sure(ask[r].prev)

Untried(r) == tried[r] = <<>>

(* A continuation has one candidate: its origin, unless that is forgotten. *)
OneWay(r) ==
  \E c : /\ cands[r] = <<c>>
         /\ Pinnable(r) => c.provider = origin[ask[r].prev].provider

(* An id that no affinity within its lifetime belongs to. *)
Stale(id) == id \in DOMAIN origin => ~Fresh(id)

HomeInv(r) ==
  /\ ask[r].prev \in DOMAIN origin \cup {"foreign", ""}
  /\ pc[r] \in {"idle", "route", "purge"} => Untried(r)
  /\ pc[r] = "purge" => Stale(ask[r].prev)
  /\ pc[r] = "try" /\ ask[r].prev # "" => Untried(r) /\ OneWay(r)

StickyInv ==
  /\ StickyTypeOK
  /\ OriginsInv
  /\ AffinityInv
  /\ PinInv
  /\ TimesInv
  /\ SureInv
  /\ \A r \in Requests : HomeInv(r)

(* Time passes, the process is started anew, and responses are added. *)
Onward ==
  /\ now' \in Nat /\ now <= now'
  /\ starts' \in Nat /\ starts <= starts'
  /\ \A id \in DOMAIN origin :
       /\ id \in DOMAIN origin' /\ origin'[id] = origin[id]
       /\ pc'[id] = "pin" => pc[id] = "pin"
  /\ DOMAIN origin' \subseteq DOMAIN origin \cup Requests

LEMMA FreshBefore ==
  ASSUME StickyInv, Onward, NEW id \in DOMAIN origin, Fresh(id)'
  PROVE  Fresh(id)
<1>1. /\ now \in Nat /\ now' \in Nat /\ now <= now'
      /\ starts \in Nat /\ starts' \in Nat /\ starts <= starts'
      /\ origin'[id] = origin[id]
      /\ origin[id].at \in Nat /\ origin[id].start \in Nat /\ origin[id].start <= starts
  BY DEF StickyInv, StickyTypeOK, OriginsInv, Onward
<1>2. TTL \in Nat
  BY GatewayAssumption
<1>3. origin'[id].start = starts' /\ ~(now' - origin'[id].at > TTL)
  BY DEF Fresh
<1> QED
  BY <1>1, <1>2, <1>3 DEF Fresh

LEMMA AskedBefore ==
  ASSUME StickyInv, Onward, NEW r \in Requests, ask'[r] = ask[r]
  PROVE  /\ Pinnable(r)' => Pinnable(r)
         /\ Stale(ask[r].prev) => Stale(ask[r].prev)'
<1> DEFINE id == ask[r].prev
<1>1. id \in DOMAIN origin \cup {"foreign", ""}
  BY DEF StickyInv, HomeInv
<1>2. id \in DOMAIN origin' => id \in DOMAIN origin
  BY <1>1, GatewayAssumption DEF Onward
<1>3. id' = id
  OBVIOUS
<1> HIDE DEF id
<1>4. ASSUME id \in DOMAIN origin', Fresh(id)'
      PROVE  id \in DOMAIN origin /\ Fresh(id)
  BY <1>2, <1>3, <1>4, FreshBefore
<1>5. Pinnable(r)' => Pinnable(r)
  BY <1>2, <1>3, <1>4 DEF Pinnable, Fresh, id
<1>6. Stale(id) => Stale(id)'
  BY <1>3, <1>4 DEF Stale
<1> QED
  BY <1>3, <1>5, <1>6 DEF id

(* A request that does not move keeps its way. *)
LEMMA HomeStays ==
  ASSUME StickyInv, Onward, NEW r \in Requests,
         ask'[r] = ask[r], pc'[r] = pc[r], cands'[r] = cands[r], tried'[r] = tried[r]
  PROVE  HomeInv(r)'
<1>1. HomeInv(r)
  BY DEF StickyInv
<1>2. Pinnable(r)' => Pinnable(r)
  BY AskedBefore
<1>a. Stale(ask[r].prev) => Stale(ask[r].prev)'
  BY AskedBefore
<1>3. ask'[r].prev \in DOMAIN origin' \cup {"foreign", ""}
  BY <1>1 DEF HomeInv, Onward
<1>4. Untried(r) => Untried(r)'
  BY DEF Untried
<1>5. OneWay(r) => OneWay(r)'
  <2> SUFFICES ASSUME OneWay(r) PROVE OneWay(r)'
    OBVIOUS
  <2>1. PICK c : cands[r] = <<c>> /\ (Pinnable(r) => c.provider = origin[ask[r].prev].provider)
    BY DEF OneWay
  <2>2. ask[r].prev \in DOMAIN origin => origin'[ask[r].prev] = origin[ask[r].prev]
    BY DEF Onward
  <2>3. Pinnable(r) => ask[r].prev \in DOMAIN origin
    BY DEF Pinnable
  <2>4. Pinnable(r)' => c.provider = origin'[ask'[r].prev].provider
    BY <1>2, <2>1, <2>2, <2>3
  <2>5. cands'[r] = <<c>>
    BY <2>1
  <2> QED
    BY <2>4, <2>5 DEF OneWay
<1> QED
  BY <1>1, <1>3, <1>4, <1>5, <1>a DEF HomeInv

LEMMA NoAskContinuesNothing == NoAsk.prev = ""
BY DEF NoAsk

LEMMA StickyInit == Init => StickyInv
<1> SUFFICES ASSUME Init PROVE StickyInv
  OBVIOUS
<1>1. /\ pc = [r \in Requests |-> "idle"] /\ ask = [r \in Requests |-> NoAsk]
      /\ cands = [r \in Requests |-> <<>>] /\ tried = [r \in Requests |-> <<>>]
  BY Zenon DEF Init
<1>2. now = 0 /\ starts = 1
  BY Zenon DEF Init
<1>3. StickyTypeOK
  BY <1>1, <1>2 DEF StickyTypeOK, Places
<1>4. aff = <<>> /\ origin = <<>>
  BY Zenon DEF Init
<1>a. PinInv /\ SureInv
  BY <1>1 DEF PinInv, SureInv, NoAsk
<1>5. aff = <<>> => DOMAIN aff = {}
  OBVIOUS
<1>6. origin = <<>> => DOMAIN origin = {}
  OBVIOUS
<1>7. DOMAIN aff = {} /\ DOMAIN origin = {}
  BY <1>4, <1>5, <1>6, Zenon
<1>8. ASSUME NEW r \in Requests PROVE HomeInv(r)
  <2>1. pc[r] = "idle" /\ ask[r] = NoAsk
    BY <1>1
  <2>2. Untried(r)
    BY <1>1, Zenon DEF Untried
  <2>3. ask[r].prev = ""
    BY <2>1, NoAskContinuesNothing
  <2> QED
    BY <2>1, <2>2, <2>3 DEF HomeInv
<1> QED
  BY <1>3, <1>7, <1>8, <1>a DEF StickyInv, OriginsInv, AffinityInv, TimesInv

(* A step of no handler: time passes, or a new process starts. *)
LEMMA StickyQuiet ==
  ASSUME StickyInv, Onward, UNCHANGED <<aff, pc, ask, cands, tried, origin>>,
         phase' = phase \/ starts < starts'
  PROVE  StickyInv'
<1>1. StickyTypeOK'
  BY DEF StickyInv, StickyTypeOK, Onward
<1>2. OriginsInv'
  BY DEF StickyInv, StickyTypeOK, OriginsInv, Onward
<1>3. AffinityInv'
  <2>1. ASSUME NEW id \in DOMAIN origin, Running', Fresh(id)', pc'[id] # "pin"
        PROVE  id \in DOMAIN aff
    <3>1. CASE phase' = phase
      <4>1. Fresh(id)
        BY <2>1, FreshBefore
      <4> QED
        BY <2>1, <3>1, <4>1 DEF StickyInv, AffinityInv, Running
    <3>2. CASE starts < starts'
      BY <2>1, <3>2 DEF StickyInv, StickyTypeOK, OriginsInv, Fresh, Onward
    <3> QED
      BY <3>1, <3>2
  <2> QED
    BY <2>1 DEF StickyInv, AffinityInv
<1>4. \A r \in Requests : HomeInv(r)'
  BY HomeStays
<1>5. PinInv' /\ SureInv' /\ TimesInv'
  BY DEF StickyInv, StickyTypeOK, OriginsInv, PinInv, SureInv, TimesInv, Sure, Onward
<1> QED
  BY <1>1, <1>2, <1>3, <1>4, <1>5 DEF StickyInv

(* A step of the handler of r that completes no response.  Get may drop    *)
(* affinities, but only expired ones.                                      *)
LEMMA StickyMove ==
  ASSUME StickyInv, NEW r \in Requests,
         UNCHANGED <<now, starts, phase, origin>>,
         StickyTypeOK', HomeInv(r)',
         \A q \in Requests : q # r =>
           pc'[q] = pc[q] /\ ask'[q] = ask[q] /\ cands'[q] = cands[q] /\ tried'[q] = tried[q],
         pc[r] \in Past => pc'[r] \in Past,
         pc[r] # "pin", pc'[r] # "pin", ask'[r].sure => Sure(ask'[r].prev),
         \A id \in DOMAIN aff' : id \in DOMAIN aff /\ aff'[id] = aff[id],
         \A id \in DOMAIN aff : id \in DOMAIN aff' \/ ~Fresh(id)
  PROVE  StickyInv'
<1>0. \A q \in Requests : pc'[q] = "pin" <=> pc[q] = "pin"
  OBVIOUS
<1>1. Onward
  BY <1>0 DEF Onward, StickyInv, StickyTypeOK, OriginsInv
<1>2. OriginsInv' /\ TimesInv'
  BY DEF StickyInv, OriginsInv, TimesInv
<1>3. AffinityInv'
  BY <1>0 DEF StickyInv, OriginsInv, AffinityInv, Fresh, Running
<1>4. \A q \in Requests : q # r => HomeInv(q)'
  BY <1>1, HomeStays
<1>5. PinInv'
  BY <1>0 DEF StickyInv, PinInv
<1>6. SureInv'
  <2>1. \A id : Sure(id) => Sure(id)'
    BY <1>0 DEF Sure, StickyInv, OriginsInv
  <2> QED
    BY <2>1 DEF StickyInv, SureInv
<1> QED
  BY <1>2, <1>3, <1>4, <1>5, <1>6 DEF StickyInv

(* The same, with the affinities left alone. *)
OthersWait(r) ==
  /\ DOMAIN ask' = Requests /\ DOMAIN cands' = Requests /\ DOMAIN tried' = Requests
  /\ \A q \in Requests : q # r =>
       ask'[q] = ask[q] /\ cands'[q] = cands[q] /\ tried'[q] = tried[q]

LEMMA StickyRoute ==
  ASSUME StickyInv, NEW r \in Requests,
         UNCHANGED <<now, starts, phase, origin, aff>>,
         pc' = [pc EXCEPT ![r] = pc'[r]], pc'[r] \in Places, OthersWait(r),
         pc[r] \in Past => pc'[r] \in Past, pc[r] # "pin", pc'[r] # "pin",
         ask'[r] = ask[r] \/ (ask'[r].sure => Sure(ask'[r].prev)),
         HomeInv(r)'
  PROVE  StickyInv'
<1>1. StickyTypeOK'
  BY DEF StickyInv, StickyTypeOK, OthersWait
<1>2. \A q \in Requests : q # r =>
        pc'[q] = pc[q] /\ ask'[q] = ask[q] /\ cands'[q] = cands[q] /\ tried'[q] = tried[q]
  BY DEF StickyInv, StickyTypeOK, OthersWait
<1>3. ask'[r].sure => Sure(ask'[r].prev)
  BY DEF StickyInv, SureInv
<1>4. /\ \A id \in DOMAIN aff' : id \in DOMAIN aff /\ aff'[id] = aff[id]
      /\ \A id \in DOMAIN aff : id \in DOMAIN aff' \/ ~Fresh(id)
  OBVIOUS
<1> QED
  BY <1>1, <1>2, <1>3, <1>4, StickyMove DEF Past

(* A request that is over, or continues nothing, may do as it likes. *)
LEMMA HomeOver ==
  ASSUME NEW r \in Requests, pc'[r] \in {"pin", "record", "answer", "log", "done", "dead"},
         ask'[r].prev \in DOMAIN origin' \cup {"foreign", ""}
  PROVE  HomeInv(r)'
BY DEF HomeInv

LEMMA StickyReceive ==
  ASSUME StickyInv, NEW r \in Requests, NEW a, Receive(r, a)
  PROVE  StickyInv'
<1> DEFINE e == [name |-> a.name, needs |-> a.needs, prev |-> a.prev,
                 sure |-> a.prev \in DOMAIN origin /\ pc[a.prev] # "pin"]
<1>1. /\ pc[r] = "idle" /\ a.prev \in Ids \cup {""}
      /\ pc' = [pc EXCEPT ![r] = "route"]
      /\ ask' = [ask EXCEPT ![r] = e]
      /\ UNCHANGED <<now, starts, phase, origin, aff, cands, tried>>
  BY DEF Receive, serverVars
<1>a. a.prev \in DOMAIN origin \cup {"foreign", ""}
  BY <1>1 DEF Ids
<1>b. e.prev = a.prev /\ (e.sure => Sure(a.prev))
  BY DEF Sure
<1> HIDE DEF e
<1>2. ask'[r].prev = a.prev /\ (ask'[r].sure => Sure(ask'[r].prev))
  BY <1>1, <1>b DEF StickyInv, StickyTypeOK
<1>3. Untried(r) /\ (Untried(r) => Untried(r)')
  BY <1>1 DEF StickyInv, HomeInv, Untried
<1>4. pc'[r] = "route" /\ pc' = [pc EXCEPT ![r] = pc'[r]]
  BY <1>1 DEF StickyInv, StickyTypeOK
<1>5. HomeInv(r)'
  BY <1>1, <1>a, <1>2, <1>3, <1>4 DEF HomeInv
<1>6. OthersWait(r)
  BY <1>1 DEF OthersWait, StickyInv, StickyTypeOK
<1>7. pc'[r] \in Places /\ pc[r] \notin Past
  BY <1>1, <1>4 DEF Places, Past
<1> QED
  BY <1>1, <1>2, <1>4, <1>5, <1>6, <1>7, StickyRoute DEF Past

LEMMA StickyRouteFresh ==
  ASSUME StickyInv, NEW r \in Requests, RouteFresh(r)
  PROVE  StickyInv'
<1>1. /\ pc[r] = "route" /\ ask[r].prev = ""
      /\ UNCHANGED <<now, starts, phase, origin, aff, ask, tried>>
  BY DEF RouteFresh, serverVars
<1>2. PICK place \in {"log", "try"} : pc' = [pc EXCEPT ![r] = place]
  BY DEF RouteFresh, Routed
<1>3. cands' = [cands EXCEPT ![r] = cands'[r]]
  BY DEF RouteFresh, Routed, StickyInv, StickyTypeOK
<1>4. pc'[r] \in {"log", "try"} /\ pc' = [pc EXCEPT ![r] = pc'[r]]
  BY <1>2 DEF StickyInv, StickyTypeOK
<1>5. HomeInv(r)'
  BY <1>1, <1>4 DEF HomeInv
<1>6. OthersWait(r)
  BY <1>1, <1>3 DEF OthersWait, StickyInv, StickyTypeOK
<1>7. pc'[r] \in Places /\ pc[r] \notin Past
  BY <1>1, <1>4 DEF Places, Past
<1> QED
  BY <1>1, <1>4, <1>5, <1>6, <1>7, StickyRoute DEF Past

(* Whoever is told "unknown" asked for nothing that could be pinned. *)
LEMMA UnknownIsNotPinnable ==
  ASSUME StickyInv, Running, NEW r \in Requests, ask[r].prev \notin DOMAIN aff
  PROVE  ~Pinnable(r)
BY DEF StickyInv, AffinityInv, SureInv, Sure, Pinnable, Fresh

LEMMA ExpiredIsStale ==
  ASSUME StickyInv, NEW id \in DOMAIN aff, Expired(aff[id])
  PROVE  Stale(id)
<1>1. /\ id \in DOMAIN origin /\ origin[id].at <= aff[id].at /\ now - aff[id].at > TTL
      /\ origin[id].at \in Nat /\ aff[id].at \in Nat /\ now \in Nat
  BY DEF StickyInv, StickyTypeOK, OriginsInv, AffinityInv, Expired
<1>2. TTL \in Nat
  BY GatewayAssumption
<1>3. now - origin[id].at > TTL
  BY <1>1, <1>2
<1> QED
  BY <1>3 DEF Stale, Fresh

LEMMA StaleIsNotPinnable ==
  ASSUME NEW r, Stale(ask[r].prev)
  PROVE  ~Pinnable(r)
BY DEF Stale, Fresh, Pinnable

(* FirstOnly leads a request that may go anywhere to at most one place. *)
LEMMA FirstOnlyFacts ==
  ASSUME StickyInv, NEW r \in Requests, pc[r] \in {"route", "purge"}, ~Pinnable(r), FirstOnly(r),
         UNCHANGED <<now, starts, origin, ask, tried>>
  PROVE  /\ pc' = [pc EXCEPT ![r] = pc'[r]]
         /\ pc'[r] \in {"log", "try"}
         /\ cands' = [cands EXCEPT ![r] = cands'[r]]
         /\ HomeInv(r)'
<1> DEFINE list == IF Found(r) = <<>> THEN <<>> ELSE <<Head(Found(r))>>
<1>1. /\ cands' = [cands EXCEPT ![r] = list]
      /\ pc' = [pc EXCEPT ![r] = IF list = <<>> THEN "log" ELSE "try"]
  BY DEF FirstOnly, Routed
<1>2. cands'[r] = list /\ pc'[r] = IF list = <<>> THEN "log" ELSE "try"
  BY <1>1 DEF StickyInv, StickyTypeOK
<1>3. list = <<>> \/ \E c : list = <<c>>
  OBVIOUS
<1> HIDE DEF list
<1>4. ~Pinnable(r)'
  BY DEF Pinnable
<1>5. Untried(r)'
  <2>1. Untried(r) => Untried(r)'
    BY DEF Untried
  <2> QED
    BY <2>1 DEF StickyInv, HomeInv
<1>6. pc'[r] = "try" => OneWay(r)'
  <2>1. pc'[r] = "try" => list # <<>>
    BY <1>2
  <2> QED
    BY <1>2, <1>3, <1>4, <2>1, Zenon DEF OneWay
<1>7. pc'[r] \in {"log", "try"}
  BY <1>2
<1>8. ask'[r].prev \in DOMAIN origin' \cup {"foreign", ""}
  BY DEF StickyInv, HomeInv
<1>9. HomeInv(r)'
  BY <1>4, <1>5, <1>6, <1>7, <1>8 DEF HomeInv
<1> QED
  BY <1>1, <1>2, <1>7, <1>9

LEMMA StickyRouteUnknown ==
  ASSUME StickyInv, Running, NEW r \in Requests, RouteUnknown(r)
  PROVE  StickyInv'
<1>1. /\ pc[r] = "route" /\ ask[r].prev \notin DOMAIN aff /\ FirstOnly(r)
      /\ UNCHANGED <<now, starts, phase, origin, aff, ask, tried>>
  BY DEF RouteUnknown, serverVars
<1>2. ~Pinnable(r)
  BY <1>1, UnknownIsNotPinnable
<1>3. /\ pc' = [pc EXCEPT ![r] = pc'[r]]
      /\ pc'[r] \in {"log", "try"}
      /\ cands' = [cands EXCEPT ![r] = cands'[r]]
      /\ HomeInv(r)'
  BY <1>1, <1>2, FirstOnlyFacts
<1>4. OthersWait(r)
  BY <1>1, <1>3 DEF OthersWait, StickyInv, StickyTypeOK
<1>5. pc'[r] \in Places /\ pc[r] \notin Past
  BY <1>1, <1>3 DEF Places, Past
<1> QED
  BY <1>1, <1>3, <1>4, <1>5, StickyRoute DEF Past

LEMMA StickyFindExpired ==
  ASSUME StickyInv, NEW r \in Requests, FindExpired(r)
  PROVE  StickyInv'
<1>1. /\ pc[r] = "route" /\ ask[r].prev \in DOMAIN aff /\ Expired(aff[ask[r].prev])
      /\ pc' = [pc EXCEPT ![r] = "purge"]
      /\ UNCHANGED <<now, starts, phase, origin, aff, ask, cands, tried>>
  BY DEF FindExpired, serverVars
<1>2. Stale(ask[r].prev)
  BY <1>1, ExpiredIsStale
<1>3. Stale(ask[r].prev)'
  BY <1>1, <1>2 DEF Stale, Fresh
<1>4. Untried(r) /\ (Untried(r) => Untried(r)')
  BY <1>1 DEF StickyInv, HomeInv, Untried
<1>5. ask'[r].prev \in DOMAIN origin' \cup {"foreign", ""}
  BY <1>1 DEF StickyInv, HomeInv
<1>6. pc'[r] = "purge" /\ pc' = [pc EXCEPT ![r] = pc'[r]]
  BY <1>1 DEF StickyInv, StickyTypeOK
<1>7. HomeInv(r)'
  BY <1>3, <1>4, <1>5, <1>6 DEF HomeInv
<1>8. pc'[r] \in Places /\ pc[r] \notin Past
  BY <1>1, <1>6 DEF Places, Past
<1>9. OthersWait(r)
  BY <1>1 DEF OthersWait, StickyInv, StickyTypeOK
<1> QED
  BY <1>1, <1>6, <1>7, <1>8, <1>9, StickyRoute DEF Past

LEMMA StickyPurgeExpired ==
  ASSUME StickyInv, NEW r \in Requests, PurgeExpired(r)
  PROVE  StickyInv'
<1>1. /\ pc[r] = "purge" /\ FirstOnly(r)
      /\ aff' = [id \in DOMAIN aff \ {ask[r].prev} |-> aff[id]]
      /\ UNCHANGED <<now, starts, phase, origin, ask, tried>>
  BY DEF PurgeExpired, serverVars
<1>0. Stale(ask[r].prev)
  BY <1>1 DEF StickyInv, HomeInv
<1>2. ~Pinnable(r)
  BY <1>0, StaleIsNotPinnable
<1>3. /\ pc' = [pc EXCEPT ![r] = pc'[r]]
      /\ pc'[r] \in {"log", "try"}
      /\ cands' = [cands EXCEPT ![r] = cands'[r]]
      /\ HomeInv(r)'
  BY <1>1, <1>2, FirstOnlyFacts
<1>4. \A id \in DOMAIN aff' : id \in DOMAIN aff /\ aff'[id] = aff[id]
  BY <1>1
<1>5. \A id \in DOMAIN aff : id \in DOMAIN aff' \/ ~Fresh(id)
  BY <1>0, <1>1 DEF StickyInv, AffinityInv, Stale
<1>6. StickyTypeOK'
  BY <1>1, <1>3 DEF StickyInv, StickyTypeOK, Places
<1>7. \A q \in Requests : q # r =>
        pc'[q] = pc[q] /\ ask'[q] = ask[q] /\ cands'[q] = cands[q] /\ tried'[q] = tried[q]
  BY <1>1, <1>3 DEF StickyInv, StickyTypeOK
<1>8. pc[r] # "pin" /\ pc'[r] # "pin" /\ (ask'[r].sure => Sure(ask'[r].prev))
  BY <1>1, <1>3 DEF StickyInv, SureInv
<1> QED
  BY <1>1, <1>3, <1>4, <1>5, <1>6, <1>7, <1>8, StickyMove DEF Past

(* A handler that returns. *)
LEMMA StickyReturn ==
  ASSUME StickyInv, NEW r \in Requests, pc[r] # "pin", Return(r),
         UNCHANGED <<now, starts, phase, origin, aff, tried>>
  PROVE  StickyInv'
<1>1. /\ pc' = [pc EXCEPT ![r] = "done"] /\ ask' = [ask EXCEPT ![r] = NoAsk]
      /\ cands' = [cands EXCEPT ![r] = <<>>]
  BY DEF Return
<1>2. pc'[r] = "done" /\ pc' = [pc EXCEPT ![r] = pc'[r]] /\ ask'[r] = NoAsk /\ ~NoAsk.sure
  BY <1>1 DEF StickyInv, StickyTypeOK, NoAsk
<1>3. HomeInv(r)'
  BY <1>2, NoAskContinuesNothing, HomeOver
<1>4. OthersWait(r)
  BY <1>1 DEF OthersWait, StickyInv, StickyTypeOK
<1>5. pc'[r] \in Places
  BY <1>2 DEF Places
<1> QED
  BY <1>2, <1>3, <1>4, <1>5, StickyRoute DEF Past

LEMMA StickyFinish ==
  ASSUME StickyInv, NEW r \in Requests, Answer(r) \/ Finish(r)
  PROVE  StickyInv'
BY StickyReturn DEF Answer, Finish, serverVars

LEMMA StickyRecord ==
  ASSUME StickyInv, NEW r \in Requests, RecordUsage(r)
  PROVE  StickyInv'
<1>1. /\ pc[r] = "record" /\ pc' = [pc EXCEPT ![r] = "answer"]
      /\ UNCHANGED <<now, starts, phase, aff, ask, cands, tried, origin>>
  BY DEF RecordUsage, serverVars
<1>2. pc'[r] = "answer" /\ pc' = [pc EXCEPT ![r] = pc'[r]] /\ pc'[r] \in Places
  BY <1>1 DEF StickyInv, StickyTypeOK, Places
<1>3. HomeInv(r)'
  BY <1>1, <1>2, HomeOver DEF StickyInv, HomeInv
<1>4. OthersWait(r) /\ ask'[r] = ask[r]
  BY <1>1 DEF OthersWait, StickyInv, StickyTypeOK
<1> QED
  BY <1>1, <1>2, <1>3, <1>4, StickyRoute DEF Past

LEMMA StickyRouteSticky ==
  ASSUME StickyInv, NEW r \in Requests, RouteSticky(r)
  PROVE  StickyInv'
<1> DEFINE a == aff[ask[r].prev]
<1>1. /\ pc[r] = "route" /\ ask[r].prev \in DOMAIN aff
      /\ UNCHANGED <<now, starts, phase, origin, aff, tried>>
  BY DEF RouteSticky, serverVars
<1>2. \/ Routed(r, <<Pinned(r, a)>>) /\ UNCHANGED ask
      \/ Return(r)
  BY DEF RouteSticky
<1>3. CASE Return(r)
  BY <1>1, <1>3, StickyReturn
<1>4. CASE Routed(r, <<Pinned(r, a)>>) /\ UNCHANGED ask
  <2>1. <<Pinned(r, a)>> # <<>>
    OBVIOUS
  <2>2. pc' = [pc EXCEPT ![r] = "try"] /\ cands' = [cands EXCEPT ![r] = <<Pinned(r, a)>>]
    BY <1>4, <2>1 DEF Routed
  <2>3. /\ pc'[r] = "try" /\ pc' = [pc EXCEPT ![r] = pc'[r]]
        /\ cands'[r] = <<Pinned(r, a)>> /\ ask'[r] = ask[r]
    BY <1>4, <2>2 DEF StickyInv, StickyTypeOK
  <2>4. Pinned(r, a).provider = a.provider
    BY DEF Pinned
  <2>5. a.provider = origin'[ask'[r].prev].provider
    BY <1>1, <2>3 DEF StickyInv, AffinityInv
  <2>6. OneWay(r)'
    BY <2>3, <2>4, <2>5 DEF OneWay
  <2>7. Untried(r) /\ (Untried(r) => Untried(r)')
    BY <1>1 DEF StickyInv, HomeInv, Untried
  <2>8. ask'[r].prev \in DOMAIN origin' \cup {"foreign", ""}
    BY <1>1, <2>3 DEF StickyInv, HomeInv
  <2>9. HomeInv(r)'
    BY <2>3, <2>6, <2>7, <2>8 DEF HomeInv
  <2>10. OthersWait(r)
    BY <1>1, <1>4, <2>2 DEF OthersWait, StickyInv, StickyTypeOK
  <2>11. pc'[r] \in Places /\ pc[r] \notin Past
    BY <1>1, <2>3 DEF Places, Past
  <2> QED
    BY <1>1, <2>3, <2>9, <2>10, <2>11, StickyRoute DEF Past
<1> QED
  BY <1>2, <1>3, <1>4

(* A continuation has no second candidate to fail over to. *)
LEMMA OneWayEnds ==
  ASSUME NEW r, OneWay(r) PROVE Len(cands[r]) = 1
BY DEF OneWay

LEMMA StickyCallFails ==
  ASSUME StickyInv, NEW r \in Requests, CallFails(r)
  PROVE  StickyInv'
<1>1. /\ pc[r] = "try" /\ UNCHANGED <<now, starts, phase, origin, aff, ask>>
      /\ cands' = [cands EXCEPT ![r] = Tail(@)]
  BY DEF CallFails, serverVars
<1>2. (Len(cands[r]) > 1 /\ pc' = pc) \/ pc' = [pc EXCEPT ![r] = "record"]
  BY DEF CallFails
<1>3. \E list : tried' = [tried EXCEPT ![r] = list]
  BY DEF CallFails, Try
<1>4. OthersWait(r)
  BY <1>1, <1>3 DEF OthersWait, StickyInv, StickyTypeOK
<1>5. ask'[r] = ask[r] /\ ask'[r].prev \in DOMAIN origin' \cup {"foreign", ""}
  BY <1>1 DEF StickyInv, HomeInv
<1>6. CASE pc' = [pc EXCEPT ![r] = "record"]
  <2>1. pc'[r] = "record" /\ pc' = [pc EXCEPT ![r] = pc'[r]] /\ pc'[r] \in Places
    BY <1>6 DEF StickyInv, StickyTypeOK, Places
  <2>2. HomeInv(r)'
    BY <1>5, <2>1, HomeOver
  <2> QED
    BY <1>1, <1>4, <2>1, <2>2, StickyRoute DEF Past
<1>7. CASE Len(cands[r]) > 1 /\ pc' = pc
  <2>1. ask[r].prev = ""
    <3>1. ask[r].prev # "" => OneWay(r)
      BY <1>1 DEF StickyInv, HomeInv
    <3>2. OneWay(r) => Len(cands[r]) = 1
      BY OneWayEnds
    <3>3. ~(1 > 1)
      OBVIOUS
    <3>4. Len(cands[r]) # 1
      BY <1>7, <3>3, Zenon
    <3> QED
      BY <3>1, <3>2, <3>4, Zenon
  <2>2. pc'[r] = "try" /\ pc' = [pc EXCEPT ![r] = pc'[r]] /\ pc'[r] \in Places
    BY <1>1, <1>7 DEF StickyInv, StickyTypeOK, Places
  <2>3. HomeInv(r)'
    BY <1>5, <2>1, <2>2 DEF HomeInv
  <2> QED
    BY <1>1, <1>4, <2>2, <2>3, StickyRoute DEF Past
<1> QED
  BY <1>2, <1>6, <1>7

LEMMA StickyEnds ==
  ASSUME StickyInv, Ends
  PROVE  StickyInv'
<1>1. /\ pc' = [r \in Requests |-> IF r \in Active THEN "dead" ELSE pc[r]]
      /\ ask' = [r \in Requests |-> NoAsk] /\ cands' = [r \in Requests |-> <<>>]
      /\ UNCHANGED <<now, starts, tried, origin>>
  BY DEF Ends
<1>2. phase' = "gone"
  BY DEF Ends
<1>3. aff' = <<>>
  BY DEF Ends
<1>4. aff' = <<>> => DOMAIN aff' = {}
  OBVIOUS
<1>5. DOMAIN aff' = {}
  BY <1>3, <1>4, Zenon
<1>6. StickyTypeOK'
  BY <1>1 DEF StickyInv, StickyTypeOK, Places
<1>7. \A r \in Requests : pc[r] \in Places /\ pc'[r] = IF r \in Active THEN "dead" ELSE pc[r]
  BY <1>1 DEF StickyInv, StickyTypeOK
<1>8. OriginsInv'
  BY <1>1, <1>7 DEF StickyInv, OriginsInv, Past
<1>9. AffinityInv'
  BY <1>2, <1>5 DEF AffinityInv, Running
<1>11. PinInv' /\ SureInv' /\ TimesInv'
  BY <1>1, <1>7 DEF StickyInv, PinInv, SureInv, TimesInv, NoAsk, Active
<1>10. ASSUME NEW r \in Requests PROVE HomeInv(r)'
  <2>1. pc'[r] \in {"idle", "done", "dead"}
    BY <1>7 DEF Active, Places
  <2>2. pc'[r] = "idle" => pc[r] = "idle"
    BY <1>7
  <2>3. Untried(r) => Untried(r)'
    BY <1>1 DEF Untried
  <2>4. pc[r] = "idle" => Untried(r)
    BY DEF StickyInv, HomeInv
  <2>5. ask'[r].prev = ""
    BY <1>1, NoAskContinuesNothing
  <2> QED
    BY <2>1, <2>2, <2>3, <2>4, <2>5 DEF HomeInv
<1> QED
  BY <1>6, <1>8, <1>9, <1>10, <1>11 DEF StickyInv

(* Affinities are added, or left alone. *)
Kept ==
  \A id \in DOMAIN aff : id \in DOMAIN aff' /\ aff'[id] = aff[id]

(* A response is completed: its request is not among the origins yet, nor  *)
(* does any other request continue it.                                     *)
LEMMA StickyServed ==
  ASSUME StickyInv, NEW r \in Requests, pc[r] = "try", NEW c, c = Head(cands[r]),
         UNCHANGED <<now, starts, phase, ask, cands>>, OthersWait(r),
         pc' = [pc EXCEPT ![r] = pc'[r]], pc'[r] \in {"record", "pin"},
         origin' = With(origin, r, Made(c)),
         \/ pc'[r] = "pin" /\ UNCHANGED aff
         \/ pc'[r] = "record" /\ aff' = With(aff, r, Affinity(c))
  PROVE  StickyInv'
<1> DEFINE made == Made(c)
           pin == Affinity(c)
<1>1. r \notin DOMAIN origin /\ r \notin DOMAIN aff
  BY DEF StickyInv, OriginsInv, AffinityInv, Past
<1>2. /\ DOMAIN origin' = DOMAIN origin \cup {r} /\ origin'[r] = made
      /\ \A id \in DOMAIN origin : origin'[id] = origin[id]
  BY <1>1 DEF With
<1>3. /\ DOMAIN aff' \subseteq DOMAIN aff \cup {r} /\ Kept
      /\ pc'[r] = "record" => r \in DOMAIN aff'
      /\ r \in DOMAIN aff' => aff'[r] = pin
  BY <1>1 DEF With, Kept
<1>4. /\ made.provider = c.provider /\ pin.provider = c.provider
      /\ made.at = now /\ pin.at = now /\ made.start = starts
  BY DEF Made, Affinity
<1>5. now \in Nat /\ starts \in Nat /\ now <= now
  BY DEF StickyInv, StickyTypeOK
<1> HIDE DEF made, pin
<1>6. \A id \in DOMAIN origin : pc'[id] = pc[id]
  BY <1>1 DEF StickyInv, StickyTypeOK, OriginsInv
<1>7. Onward
  BY <1>2, <1>5, <1>6 DEF Onward
<1>8. StickyTypeOK'
  BY DEF StickyInv, StickyTypeOK, OthersWait, Places
<1>9. OriginsInv' /\ TimesInv'
  BY <1>2, <1>4, <1>5, <1>6 DEF StickyInv, OriginsInv, TimesInv, Past
<1>10. AffinityInv'
  <2>1. \A id \in DOMAIN aff' :
          /\ id \in DOMAIN origin'
          /\ aff'[id].provider = origin'[id].provider
          /\ aff'[id].at \in Nat
          /\ origin'[id].at <= aff'[id].at
    BY <1>2, <1>3, <1>4, <1>5 DEF StickyInv, AffinityInv, Kept
  <2>2. ASSUME Running', NEW id \in DOMAIN origin', Fresh(id)', pc'[id] # "pin"
        PROVE  id \in DOMAIN aff'
    <3>1. CASE id = r
      BY <1>3, <2>2, <3>1
    <3>2. CASE id \in DOMAIN origin
      <4>1. Fresh(id)
        BY <1>7, <2>2, <3>2, FreshBefore
      <4> QED
        BY <1>3, <1>6, <2>2, <3>2, <4>1 DEF StickyInv, AffinityInv, Running, Kept
    <3> QED
      BY <1>2, <2>2, <3>1, <3>2
  <2> QED
    BY <2>1, <2>2 DEF AffinityInv
<1>11. PinInv'
  <2> SUFFICES ASSUME NEW q \in Requests, pc'[q] = "pin"
               PROVE  q \in DOMAIN origin' /\ Head(cands'[q]).provider = origin'[q].provider
    BY DEF PinInv
  <2>1. CASE q = r
    BY <1>2, <1>4, <2>1
  <2>2. CASE q # r
    <3>1. pc[q] = "pin" /\ cands'[q] = cands[q]
      BY <2>2 DEF StickyInv, StickyTypeOK
    <3> QED
      BY <1>2, <3>1 DEF StickyInv, PinInv
  <2> QED
    BY <2>1, <2>2
<1>12. SureInv'
  BY <1>2, <1>6 DEF StickyInv, SureInv, Sure
<1>13. HomeInv(r)'
  BY <1>2, HomeOver DEF StickyInv, HomeInv
<1>14. ASSUME NEW q \in Requests, q # r PROVE HomeInv(q)'
  <2>1. pc'[q] = pc[q] /\ ask'[q] = ask[q] /\ cands'[q] = cands[q] /\ tried'[q] = tried[q]
    BY <1>14 DEF OthersWait, StickyInv, StickyTypeOK
  <2> QED
    BY <1>7, <2>1, HomeStays
<1> QED
  BY <1>8, <1>9, <1>10, <1>11, <1>12, <1>13, <1>14 DEF StickyInv

LEMMA StickyCallServes ==
  ASSUME StickyInv, NEW r \in Requests, NEW res \in {"completed", "incomplete"},
         CallServes(r, res) \/ StreamServes(r, res)
  PROVE  StickyInv'
<1> DEFINE c == Head(cands[r])
<1>1. /\ pc[r] = "try" /\ UNCHANGED <<now, starts, phase, ask, cands>>
      /\ \E list : tried' = [tried EXCEPT ![r] = list]
  BY DEF CallServes, StreamServes, serverVars, Try
<1>2. OthersWait(r)
  BY <1>1 DEF OthersWait, StickyInv, StickyTypeOK
<1>3. \/ /\ pc' = [pc EXCEPT ![r] = "record"] /\ UNCHANGED <<aff, origin>>
      \/ /\ pc' = [pc EXCEPT ![r] = "log"] /\ UNCHANGED <<aff, origin>>
      \/ /\ pc' = [pc EXCEPT ![r] = "record"] /\ origin' = With(origin, r, Made(c))
         /\ aff' = With(aff, r, Affinity(c))
      \/ /\ pc' = [pc EXCEPT ![r] = "pin"] /\ origin' = With(origin, r, Made(c))
         /\ UNCHANGED aff
  BY Zenon DEF CallServes, StreamServes
<1> HIDE DEF c
<1>4. pc' = [pc EXCEPT ![r] = pc'[r]] /\ pc'[r] \in {"record", "log", "pin"}
  BY <1>3 DEF StickyInv, StickyTypeOK
<1>5. CASE pc'[r] # "pin" /\ UNCHANGED <<aff, origin>>
  <2>1. HomeInv(r)'
    BY <1>1, <1>4, <1>5, HomeOver DEF StickyInv, HomeInv
  <2> QED
    BY <1>1, <1>2, <1>4, <1>5, <2>1, StickyRoute DEF Past, Places
<1>6. CASE /\ origin' = With(origin, r, Made(c))
           /\ \/ pc'[r] = "pin" /\ UNCHANGED aff
              \/ pc'[r] = "record" /\ aff' = With(aff, r, Affinity(c))
  <2>1. pc'[r] \in {"record", "pin"}
    BY <1>6
  <2> QED
    BY <1>1, <1>2, <1>4, <1>6, <2>1, StickyServed DEF c
<1> QED
  BY <1>3, <1>5, <1>6 DEF StickyInv, StickyTypeOK

(* The affinity of a streamed response is set, to its origin. *)
LEMMA StickyPin ==
  ASSUME StickyInv, NEW r \in Requests, PinStreamed(r)
  PROVE  StickyInv'
<1> DEFINE pin == Affinity(Head(cands[r]))
<1>1. /\ pc[r] = "pin" /\ pc' = [pc EXCEPT ![r] = "log"]
      /\ aff' = With(aff, r, pin)
      /\ UNCHANGED <<now, starts, phase, ask, cands, tried, origin>>
  BY DEF PinStreamed, serverVars
<1>2. /\ r \in DOMAIN origin /\ pin.provider = origin[r].provider /\ pin.at = now
  BY <1>1 DEF StickyInv, PinInv, Affinity
<1> HIDE DEF pin
<1>3. now \in Nat /\ starts \in Nat
  BY DEF StickyInv, StickyTypeOK
<1>4. /\ \A id \in DOMAIN aff' : (id = r /\ aff'[id] = pin) \/ (id \in DOMAIN aff /\ aff'[id] = aff[id])
      /\ r \in DOMAIN aff' /\ \A id \in DOMAIN aff : id \in DOMAIN aff'
  BY <1>1 DEF With
<1>5. pc'[r] = "log" /\ \A q \in Requests : q # r => pc'[q] = pc[q]
  BY <1>1 DEF StickyInv, StickyTypeOK
<1>6. Onward
  BY <1>1, <1>3, <1>5 DEF Onward, StickyInv, OriginsInv
<1>7. StickyTypeOK'
  BY <1>1 DEF StickyInv, StickyTypeOK, Places
<1>8. OriginsInv'
  BY <1>1, <1>5 DEF StickyInv, OriginsInv, Past
<1>9. AffinityInv'
  <2>1. origin[r].at <= now
    BY <1>2 DEF StickyInv, TimesInv
  <2>2. \A id \in DOMAIN aff' :
          /\ id \in DOMAIN origin'
          /\ aff'[id].provider = origin'[id].provider
          /\ aff'[id].at \in Nat
          /\ origin'[id].at <= aff'[id].at
    BY <1>1, <1>2, <1>3, <1>4, <2>1 DEF StickyInv, AffinityInv
  <2>3. ASSUME Running', NEW id \in DOMAIN origin', Fresh(id)', pc'[id] # "pin"
        PROVE  id \in DOMAIN aff'
    <3>1. id = r \/ pc[id] # "pin"
      BY <1>1, <1>5, <2>3 DEF StickyInv, OriginsInv
    <3>2. Fresh(id) /\ Running /\ id \in DOMAIN origin
      BY <1>1, <2>3 DEF Fresh, Running
    <3> QED
      BY <1>4, <3>1, <3>2 DEF StickyInv, AffinityInv
  <2> QED
    BY <2>2, <2>3 DEF AffinityInv
<1>10. PinInv'
  BY <1>1, <1>5 DEF StickyInv, PinInv
<1>11. SureInv'
  BY <1>1, <1>5 DEF StickyInv, SureInv, Sure, OriginsInv
<1>12. HomeInv(r)'
  BY <1>1, <1>5, HomeOver DEF StickyInv, HomeInv
<1>13. ASSUME NEW q \in Requests, q # r PROVE HomeInv(q)'
  BY <1>1, <1>5, <1>6, <1>13, HomeStays
<1> QED
  BY <1>1, <1>7, <1>8, <1>9, <1>10, <1>11, <1>12, <1>13 DEF StickyInv, TimesInv

LEMMA StickyStep == StickyInv /\ [Next]_vars => StickyInv'
<1> SUFFICES ASSUME StickyInv, [Next]_vars PROVE StickyInv'
  OBVIOUS
<1>1. now \in Nat /\ starts \in Nat
  BY DEF StickyInv, StickyTypeOK
<1>2. ASSUME UNCHANGED <<aff, pc, ask, cands, tried, origin>>,
             now' \in Nat, now <= now', starts' \in Nat, starts <= starts',
             phase' = phase \/ starts < starts'
      PROVE  StickyInv'
  <2>1. Onward
    BY <1>2 DEF Onward
  <2> QED
    BY <1>2, <2>1, StickyQuiet
<1>3. CASE Tick
  BY <1>1, <1>2, <1>3 DEF Tick
<1>4. ASSUME NEW new \in Configs, TryReload(new) PROVE StickyInv'
  BY <1>1, <1>2, <1>4 DEF TryReload
<1>5. CASE Start
  BY <1>1, <1>2, <1>5 DEF Start
<1>6. CASE Writer
  BY <1>1, <1>2, <1>6 DEF Writer, serverVars
<1>7. CASE UNCHANGED vars
  BY <1>1, <1>2, <1>7 DEF vars, serverVars
<1>8. CASE Ends
  BY <1>8, StickyEnds
<1>9. ASSUME NEW r \in Requests, NEW a, Receive(r, a) PROVE StickyInv'
  BY <1>9, StickyReceive
<1>10. ASSUME NEW r \in Requests, Handle(r) PROVE StickyInv'
  <2>1. Running
    BY <1>10 DEF Handle
  <2>2. CASE RouteFresh(r)
    BY <2>2, StickyRouteFresh
  <2>3. CASE RouteSticky(r)
    BY <2>3, StickyRouteSticky
  <2>4. CASE RouteUnknown(r)
    BY <2>1, <2>4, StickyRouteUnknown
  <2>5. CASE FindExpired(r)
    BY <2>5, StickyFindExpired
  <2>6. CASE PurgeExpired(r)
    BY <2>6, StickyPurgeExpired
  <2>7. CASE CallFails(r)
    BY <2>7, StickyCallFails
  <2>8. ASSUME NEW res \in {"completed", "incomplete"},
               CallServes(r, res) \/ StreamServes(r, res)
        PROVE  StickyInv'
    BY <2>8, StickyCallServes
  <2>9. CASE PinStreamed(r)
    BY <2>9, StickyPin
  <2>10. CASE RecordUsage(r)
    BY <2>10, StickyRecord
  <2>11. CASE Answer(r) \/ Finish(r)
    BY <2>11, StickyFinish
  <2> QED
    BY <1>10, <2>2, <2>3, <2>4, <2>5, <2>6, <2>7, <2>8, <2>9, <2>10, <2>11 DEF Handle
<1> QED
  BY <1>3, <1>4, <1>5, <1>6, <1>7, <1>8, <1>9, <1>10 DEF Next

(* Only a call adds attempts, and they are of the first candidate left. *)
LEMMA CallsAreTries ==
  ASSUME StickyInv, [Next]_vars, NEW r \in Requests, tried'[r] # tried[r]
  PROVE  /\ pc[r] = "try"
         /\ \/ tried'[r] = tried[r] \o <<Head(cands[r])>>
            \/ tried'[r] = tried[r] \o <<Head(cands[r]), Head(cands[r])>>
<1>1. tried' # tried
  OBVIOUS
<1>2. PICK q \in Requests :
        CallFails(q) \/ \E res \in {"completed", "incomplete"} : CallServes(q, res) \/ StreamServes(q, res)
  <2>1. \E q \in Requests : Handle(q)
    BY <1>1, ZenonT(60) DEF Next, vars, Tick, TryReload, Receive, Writer, Ends, Start
  <2> QED
    BY <1>1, <2>1 DEF Handle, RouteFresh, RouteSticky, RouteUnknown, FindExpired, PurgeExpired, PinStreamed,
                     RecordUsage, Answer, Finish
<1>3. /\ pc[q] = "try"
      /\ \/ tried' = [tried EXCEPT ![q] = @ \o <<Head(cands[q])>>]
         \/ tried' = [tried EXCEPT ![q] = @ \o <<Head(cands[q]), Head(cands[q])>>]
  BY <1>2 DEF CallFails, CallServes, StreamServes, Try
<1>4. q = r
  BY <1>3 DEF StickyInv, StickyTypeOK
<1> QED
  BY <1>3, <1>4 DEF StickyInv, StickyTypeOK

LEMMA OnlyOne ==
  ASSUME NEW c
  PROVE  /\ Head(<<c>>) = c
         /\ (<<>> \o <<c>>)[1] = c
         /\ (<<>> \o <<c, c>>)[1] = c
<1>1. Head(<<c>>) = c
  OBVIOUS
<1>2. /\ <<>> \in Seq({c}) /\ <<c>> \in Seq({c}) /\ <<c, c>> \in Seq({c})
      /\ Len(<<>>) = 0 /\ Len(<<c>>) = 1 /\ Len(<<c, c>>) = 2
  OBVIOUS
<1>3. (<<>> \o <<c>>)[1] = <<c>>[1]
  BY <1>2
<1>4. (<<>> \o <<c, c>>)[1] = <<c, c>>[1]
  BY <1>2
<1> QED
  BY <1>1, <1>3, <1>4

LEMMA CallsGoHome ==
  ASSUME StickyInv, [Next]_vars, NEW r \in Requests, tried'[r] # tried[r], ask[r].prev # ""
  PROVE  /\ tried[r] = <<>>
         /\ Pinnable(r) => tried'[r][1].provider = origin[ask[r].prev].provider
<1>1. pc[r] = "try"
  BY CallsAreTries
<1>2. Untried(r) /\ OneWay(r)
  BY <1>1 DEF StickyInv, HomeInv
<1>3. tried[r] = <<>>
  BY <1>2, Zenon DEF Untried
<1>4. PICK c : cands[r] = <<c>> /\ (Pinnable(r) => c.provider = origin[ask[r].prev].provider)
  BY <1>2 DEF OneWay
<1>5. Head(cands[r]) = c
  BY <1>4, OnlyOne, Zenon
<1>6. tried'[r] = <<>> \o <<c>> \/ tried'[r] = <<>> \o <<c, c>>
  <2>1. \/ tried'[r] = tried[r] \o <<Head(cands[r])>>
        \/ tried'[r] = tried[r] \o <<Head(cands[r]), Head(cands[r])>>
    BY CallsAreTries
  <2> QED
    BY <1>3, <1>5, <2>1, Zenon
<1>7. tried'[r][1] = c
  BY <1>6, OnlyOne, Zenon
<1> QED
  BY <1>3, <1>4, <1>7, Zenon

(* Once the affinity of a response is set, while it is within its lifetime *)
(* and in the process that received it, resolveWithAffinity sends its      *)
(* continuations to the provider that made it or nowhere, and never any    *)
(* continuation to two upstreams: for any requests, configurations,        *)
(* reloads and lifetime, and although Get drops its lock between finding   *)
(* an affinity expired and deleting it.                                    *)
THEOREM PreviousStaysHome == Spec => PreviousGoesHome
<1> DEFINE Home ==
      \A r \in Requests : tried'[r] # tried[r] /\ ask[r].prev # "" =>
        /\ tried[r] = <<>>
        /\ Pinnable(r) => tried'[r][1].provider = origin[ask[r].prev].provider
<1>1. StickyInv /\ [Next]_vars => [Home]_vars
  BY CallsGoHome
<1> HIDE DEF Home
<1>2. Spec => [][Home]_vars
  BY <1>1, StickyInit, StickyStep, PTL DEF Spec
<1>3. [][Home]_vars <=> PreviousGoesHome
  BY DEF Home, PreviousGoesHome
<1> QED
  BY <1>2, <1>3
=============================================================================
