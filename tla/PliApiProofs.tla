---------------------------- MODULE PliApiProofs ----------------------------
(***************************************************************************)
(* Proofs about the two ends that answer requests from outside.            *)
(*                                                                         *)
(* The command program's library against any port: for every set of calls, *)
(* every size of the pipe and any number of transactions and resets, a     *)
(* call returns with its own answer, every transaction is reported in      *)
(* order, and the port runs the transfer that was asked for.               *)
(*                                                                         *)
(* The i/o bridge against any cores and devices: every request is answered *)
(* once, with what was asked for.                                          *)
(***************************************************************************)
EXTENDS PliApi, IobModel, FiniteSetTheorems, SequenceTheorems, TLAPS

\* The packets of a port, and the commands on their way to it.
Packet == [k : {"OK", "ERR", "TRANSINFO", "DEVICEINFO", "RESET"}, n : Nat, v : Nat]
Message == [c : Calls, toks : {Encode(c) : c \in Calls}, n : Nat]

ApiRecord == [st : {"idle", "sent", "exited"}, n : Nat, got : Nat, trans : Seq(Nat),
              devs : SUBSET Nat, reset : BOOLEAN, call : {c.op : c \in Calls} \union {"none"}]

\* The port's own record is typed where the proof reads it.
ApiTypeOK ==
    /\ api \in ApiRecord
    /\ up \in Seq(Message) /\ Len(up) <= 1
    /\ down \in Seq(Packet) /\ Len(down) <= PipeCap
    /\ bus \in [n : Nat, lost : BOOLEAN]
    /\ DOMAIN srv = {"conf", "cmd", "built", "asked", "failed", "polled", "resets"}

\* A command on its way has no answer yet, an answer in the pipe belongs to
\* the call that waits, and there is one of them.
Waiting ==
    /\ up # <<>> => api.st = "sent" /\ up[1].n = api.n /\ AnswerAt = {}
    /\ \A i \in AnswerAt : api.st = "sent" /\ down[i].n = api.n
    /\ \A i, j \in AnswerAt : i = j
    /\ api.st # "sent" => api.got = api.n

\* The command of the port is what ParseReadWrite made of the text of a call.
Decoded ==
    /\ \A i \in DOMAIN up : up[i].toks = Encode(up[i].c)
    /\ srv.cmd \in Transfers =>
           /\ srv.asked \in Calls /\ srv.asked.op = srv.cmd
           /\ srv.built = Build(srv.asked, Encode(srv.asked))

ApiInv == ApiTypeOK /\ Waiting /\ TransInOrder /\ Decoded

\* The sizes of a transfer on the JBus.
TransferSizes == \A c \in Calls : c.op \in Transfers => c.size \in {1, 2, 4, 8, 16, 32, 64}

-----------------------------------------------------------------------------
(* The pipe                                                                *)

\* What write() leaves in the pipe: what was there, then a prefix of the
\* packets, all of them unless a loss is recorded.
LEMMA Written ==
    ASSUME ApiTypeOK, NEW pkts \in Seq(Packet), ApiWrite(pkts)
    PROVE  /\ down' \in Seq(Packet) /\ Len(down') <= PipeCap
           /\ DOMAIN down = 1..Len(down) /\ DOMAIN down' = 1..Len(down')
           /\ Len(down) \in Nat /\ Len(down') \in Nat /\ Len(pkts) \in Nat
           /\ Len(down) <= Len(down') /\ Len(down') <= Len(down) + Len(pkts)
           /\ \A i \in 1..Len(down) : down'[i] = down[i]
           /\ \A i \in (Len(down) + 1)..Len(down') : down'[i] = pkts[i - Len(down)]
           /\ bus' \in [n : Nat, lost : BOOLEAN] /\ bus'.n = bus.n
           /\ bus.lost => bus'.lost
           /\ bus'.lost \/ Len(down') = Len(down) + Len(pkts)
<1> DEFINE room == PipeCap - Len(down)
           fit == IF Len(pkts) <= room THEN pkts ELSE SubSeq(pkts, 1, room)
<1>1. room \in Nat
  BY PliApiAssumption DEF ApiRecord, ApiTypeOK
<1>2. /\ fit \in Seq(Packet) /\ Len(fit) <= room /\ Len(fit) <= Len(pkts)
      /\ \A i \in 1..Len(fit) : fit[i] = pkts[i]
      /\ Len(fit) = Len(pkts) => fit = pkts
  BY <1>1
<1>3. down' = down \o fit /\ bus' = [bus EXCEPT !.lost = @ \/ fit # pkts]
  BY DEF ApiWrite
<1> HIDE DEF fit
<1>4. /\ down' \in Seq(Packet) /\ Len(down') = Len(down) + Len(fit)
      /\ \A i \in 1..Len(down) : down'[i] = down[i]
      /\ \A i \in (Len(down) + 1)..Len(down') : down'[i] = fit[i - Len(down)]
  BY <1>2, <1>3 DEF ApiRecord, ApiTypeOK
<1>5. \A i \in (Len(down) + 1)..Len(down') : i - Len(down) \in 1..Len(fit)
  BY <1>2, <1>4 DEF ApiRecord, ApiTypeOK
<1>6. Len(down') <= PipeCap /\ Len(down) \in Nat /\ Len(pkts) \in Nat
  BY <1>1, <1>2, <1>4, PliApiAssumption DEF ApiRecord, ApiTypeOK
<1>7. bus' \in [n : Nat, lost : BOOLEAN] /\ bus'.n = bus.n /\ (bus.lost => bus'.lost)
  BY <1>3 DEF ApiRecord, ApiTypeOK
<1>8. bus'.lost \/ fit = pkts
  BY <1>3 DEF ApiRecord, ApiTypeOK
<1>9. Len(down) <= Len(down') /\ Len(down') <= Len(down) + Len(pkts)
  BY <1>2, <1>4, <1>6
<1>10. \A i \in (Len(down) + 1)..Len(down') : down'[i] = pkts[i - Len(down)]
  BY <1>2, <1>4, <1>5
<1>11. bus'.lost \/ Len(down') = Len(down) + Len(pkts)
  BY <1>4, <1>8
<1>12. DOMAIN down = 1..Len(down) /\ DOMAIN down' = 1..Len(down') /\ Len(down') \in Nat
  BY <1>4 DEF ApiRecord, ApiTypeOK
<1> QED
  BY <1>4, <1>6, <1>7, <1>9, <1>10, <1>11, <1>12

\* The packets of the port that are not about transactions leave what
\* TRANSACTION_INFO sees alone.
LEMMA WriteKeepsTrans ==
    ASSUME ApiTypeOK, TransInOrder, NEW pkts \in Seq(Packet), ApiWrite(pkts),
           \A i \in 1..Len(pkts) : pkts[i].k # "TRANSINFO", UNCHANGED api
    PROVE  TransInOrder'
<1>1. SUFFICES ASSUME ~bus'.lost PROVE TransInOrder'
  BY DEF TransInOrder
<1> DEFINE n == Len(down) m == Len(down') k == Len(pkts)
<1>w. /\ DOMAIN down = 1..n /\ DOMAIN down' = 1..m /\ n \in Nat /\ m \in Nat /\ k \in Nat
      /\ n <= m /\ m <= n + k
      /\ \A i \in 1..n : down'[i] = down[i]
      /\ \A i \in (n + 1)..m : down'[i] = pkts[i - n]
  BY Written
<1>p. \A i \in 1..k : pkts[i].k # "TRANSINFO"
  OBVIOUS
<1> HIDE DEF n, m, k
<1>2. ~bus.lost /\ bus'.n = bus.n
  BY <1>1, Written
<1>3. TransAt' = TransAt
  <2>1. \A i \in DOMAIN down' : i \in DOMAIN down => down'[i] = down[i]
    BY <1>w
  <2>2. \A i \in DOMAIN down' : i \notin DOMAIN down => i \in (n + 1)..m /\ i - n \in 1..k
    BY <1>w
  <2>3. \A i \in DOMAIN down' : i \notin DOMAIN down => down'[i].k # "TRANSINFO"
    BY <1>w, <1>p, <2>2
  <2>4. \A i \in DOMAIN down : i \in DOMAIN down'
    BY <1>w
  <2> QED
    BY <2>1, <2>3, <2>4 DEF TransAt
<1>4. \A i \in TransAt : down'[i] = down[i]
  BY <1>w DEF TransAt
<1>5. {down'[i].v : i \in TransAt'} = {down[i].v : i \in TransAt}
  BY <1>3, <1>4
<1>6. \A i, j \in TransAt' : i < j => down'[i].v < down'[j].v
  BY <1>2, <1>3, <1>4 DEF TransInOrder
<1> QED
  BY <1>2, <1>5, <1>6 DEF TransInOrder

\* The oldest packet is taken from the pipe and the others move up.
LEMMA Taken ==
    ASSUME ApiTypeOK, down # <<>>, down' = Tail(down)
    PROVE  /\ Head(down) = down[1] /\ down[1] \in Packet /\ 1 \in DOMAIN down
           /\ down' \in Seq(Packet) /\ Len(down') <= PipeCap
           /\ \A i \in DOMAIN down' : i \in Int /\ i + 1 \in DOMAIN down /\ down'[i] = down[i + 1]
           /\ \A i \in DOMAIN down : i \in Int /\ (i # 1 => i - 1 \in DOMAIN down' /\ i > 1)
<1>1. down \in Seq(Packet) /\ Len(down) \in Nat /\ Len(down) <= PipeCap /\ Len(down) # 0
  BY DEF ApiRecord, ApiTypeOK
<1>2. /\ down' \in Seq(Packet) /\ Len(down') = Len(down) - 1 /\ DOMAIN down = 1..Len(down)
      /\ DOMAIN down' = 1..(Len(down) - 1)
      /\ \A i \in 1..(Len(down) - 1) : down'[i] = down[i + 1]
  BY <1>1
<1>3. Head(down) = down[1] /\ down[1] \in Packet
  BY <1>1
<1> QED
  BY <1>1, <1>2, <1>3, PliApiAssumption

\* A packet about a transaction moves the transaction from the pipe to
\* trans_list, any other leaves both as they are.
LEMMA ReceiveKeepsTrans ==
    ASSUME ApiTypeOK, TransInOrder, ReceivePacket
    PROVE  TransInOrder'
<1>1. SUFFICES ASSUME ~bus'.lost PROVE TransInOrder'
  BY DEF TransInOrder
<1>2. ~bus.lost /\ bus' = bus /\ down # <<>> /\ down' = Tail(down) /\ api' = Receives(api, down[1])
  BY <1>1, Taken DEF ReceivePacket
<1> DEFINE L == Len(api.trans)
<1>3. L \in Nat /\ bus.n \in Nat /\ api.trans \in Seq(Nat) /\ DOMAIN api.trans = 1..L
  BY DEF ApiRecord, ApiTypeOK
<1>4. /\ L <= bus.n /\ \A i \in 1..L : api.trans[i] = i
      /\ {down[i].v : i \in TransAt} = (L + 1)..bus.n
      /\ \A i, j \in TransAt : i < j => down[i].v < down[j].v
  BY <1>2, <1>3 DEF TransInOrder
<1>5. /\ \A i \in TransAt' : i \in Int /\ i + 1 \in TransAt /\ down'[i] = down[i + 1]
      /\ \A i \in TransAt : i \in Int /\ (i # 1 => i - 1 \in TransAt' /\ i > 1)
  <2>1. \A i \in DOMAIN down' : i \in Int /\ i + 1 \in DOMAIN down /\ down'[i] = down[i + 1]
    BY <1>2, Taken
  <2>2. \A i \in DOMAIN down : i \in Int /\ (i # 1 => i - 1 \in DOMAIN down' /\ i > 1)
    BY <1>2, Taken
  <2>3. \A i \in TransAt' : i \in Int /\ i + 1 \in TransAt /\ down'[i] = down[i + 1]
    BY <2>1 DEF TransAt
  <2>4. ASSUME NEW i \in TransAt PROVE i \in Int /\ (i # 1 => i - 1 \in TransAt' /\ i > 1)
    <3>1. i \in DOMAIN down /\ i \in Int /\ down[i].k = "TRANSINFO"
      BY <2>2 DEF TransAt
    <3>2. CASE i # 1
      <4>1. i - 1 \in DOMAIN down' /\ i > 1
        BY <2>2, <3>1, <3>2
      <4>2. down'[i - 1] = down[i]
        BY <2>1, <3>1, <4>1
      <4> QED
        BY <3>1, <4>1, <4>2 DEF TransAt
    <3> QED
      BY <3>1, <3>2
  <2> QED
    BY <2>3, <2>4
<1>6. \A i, j \in TransAt' : i < j => down'[i].v < down'[j].v
  <2>1. SUFFICES ASSUME NEW i \in TransAt', NEW j \in TransAt', i < j PROVE down'[i].v < down'[j].v
    OBVIOUS
  <2>2. i + 1 \in TransAt /\ j + 1 \in TransAt /\ i + 1 < j + 1
        /\ down'[i] = down[i + 1] /\ down'[j] = down[j + 1]
    BY <1>5, <2>1
  <2> QED
    BY <1>4, <2>2
<1>7. \A i \in TransAt : down[i].v \in (L + 1)..bus.n
  BY <1>4
<1>8. CASE down[1].k = "TRANSINFO"
  <2>1. 1 \in TransAt
    BY <1>2, <1>8, Taken DEF TransAt
  <2>2. down[1].v = L + 1
    <3>1. down[1].v \in (L + 1)..bus.n
      BY <1>7, <2>1
    <3>2. L + 1 \in (L + 1)..bus.n
      BY <1>3, <3>1
    <3>3. PICK i \in TransAt : down[i].v = L + 1
      BY <1>4, <3>2
    <3>4. i = 1 \/ down[1].v < down[i].v
      BY <1>4, <1>5, <2>1
    <3> QED
      BY <1>3, <3>1, <3>3, <3>4
  <2>3. api'.trans = Append(api.trans, down[1].v) /\ down[1].v \in Nat
    BY <1>2, <1>8, Taken DEF Receives, ApiRecord, ApiTypeOK, Packet
  <2>4. /\ Len(api'.trans) = L + 1 /\ DOMAIN api'.trans = 1..(L + 1)
        /\ \A i \in 1..(L + 1) : api'.trans[i] = i
    BY <1>3, <1>4, <2>2, <2>3
  <2>5. {down'[i].v : i \in TransAt'} = (L + 2)..bus.n
    <3>1. ASSUME NEW i \in TransAt' PROVE down'[i].v \in (L + 2)..bus.n
      <4>1. i \in Int /\ i + 1 \in TransAt /\ down'[i] = down[i + 1] /\ i >= 1
        BY <1>2, <1>5, Taken DEF TransAt
      <4>2. down[1].v < down[i + 1].v /\ down[i + 1].v \in (L + 1)..bus.n
        BY <1>4, <1>7, <2>1, <4>1
      <4> QED
        BY <1>3, <2>2, <4>1, <4>2
    <3>2. ASSUME NEW v \in (L + 2)..bus.n PROVE \E i \in TransAt' : down'[i].v = v
      <4>1. v \in (L + 1)..bus.n /\ v # L + 1
        BY <1>3
      <4>2. PICK i \in TransAt : down[i].v = v
        BY <1>4, <4>1
      <4>3. i \in Int /\ i # 1
        BY <1>5, <2>2, <4>1, <4>2
      <4>4. i - 1 \in TransAt' /\ down'[i - 1] = down[(i - 1) + 1]
        BY <1>5, <4>3
      <4> QED
        BY <4>2, <4>3, <4>4
    <3> QED
      BY <3>1, <3>2
  <2>6. L + 1 <= bus.n
    BY <1>3, <1>7, <2>1, <2>2
  <2>7. (Len(api'.trans) + 1)..bus'.n = (L + 2)..bus.n /\ Len(api'.trans) <= bus'.n
    BY <1>2, <1>3, <2>4, <2>6
  <2>8. \A i \in DOMAIN api'.trans : api'.trans[i] = i
    BY <2>4
  <2> QED
    BY <1>6, <2>5, <2>7, <2>8 DEF TransInOrder
<1>9. CASE down[1].k # "TRANSINFO"
  <2>1. api'.trans = api.trans
    BY <1>2, <1>9 DEF Receives, ApiRecord, ApiTypeOK
  <2>2. \A i \in TransAt : i # 1
    BY <1>9 DEF TransAt
  <2>3. {down'[i].v : i \in TransAt'} = {down[i].v : i \in TransAt}
    <3>1. ASSUME NEW i \in TransAt' PROVE \E j \in TransAt : down'[i].v = down[j].v
      BY <1>5
    <3>2. ASSUME NEW i \in TransAt PROVE \E j \in TransAt' : down'[j].v = down[i].v
      <4>1. i \in Int /\ i - 1 \in TransAt' /\ down'[i - 1] = down[(i - 1) + 1]
        BY <1>5, <2>2
      <4> QED
        BY <4>1
    <3> QED
      BY <3>1, <3>2
  <2> QED
    BY <1>2, <1>3, <1>4, <1>6, <2>1, <2>3 DEF TransInOrder
<1> QED
  BY <1>8, <1>9

\* An address cycle is the next transaction and its packet the last.
LEMMA BusKeepsTrans ==
    ASSUME ApiTypeOK, TransInOrder, BusTransaction
    PROVE  TransInOrder'
<1>1. SUFFICES ASSUME ~bus'.lost PROVE TransInOrder'
  BY DEF TransInOrder
<1> DEFINE n == Len(down) L == Len(api.trans) p == ApiAnswer("TRANSINFO", 0, bus.n + 1)
<1>2. /\ bus' = [n |-> bus.n + 1, lost |-> bus.lost \/ ~(n < PipeCap)] /\ api' = api
      /\ bus.n \in Nat /\ L \in Nat
      /\ down' = IF n < PipeCap THEN Append(down, p) ELSE down
  BY DEF BusTransaction, ApiRecord, ApiTypeOK
<1>3. bus'.n = bus.n + 1 /\ ~bus.lost /\ n < PipeCap /\ down' = Append(down, p)
  BY <1>1, <1>2
<1>4. p \in Packet /\ p.k = "TRANSINFO" /\ p.v = bus.n + 1
  BY <1>2 DEF ApiAnswer, Packet
<1> HIDE DEF p
<1>5. /\ down \in Seq(Packet) /\ n \in Nat /\ DOMAIN down = 1..n /\ DOMAIN down' = 1..(n + 1)
      /\ \A i \in 1..n : down'[i] = down[i]
      /\ down'[n + 1] = p
  BY <1>3, <1>4 DEF ApiRecord, ApiTypeOK
<1> HIDE DEF n
<1>6. TransAt' = TransAt \union {n + 1} /\ TransAt \subseteq 1..n
  BY <1>4, <1>5 DEF TransAt
<1>7. /\ L <= bus.n /\ \A i \in DOMAIN api.trans : api.trans[i] = i
      /\ {down[i].v : i \in TransAt} = (L + 1)..bus.n
      /\ \A i, j \in TransAt : i < j => down[i].v < down[j].v
  BY <1>3 DEF TransInOrder
<1> HIDE DEF L
<1>8. \A i \in TransAt : down'[i] = down[i] /\ down[i].v \in (L + 1)..bus.n /\ i < n + 1
  BY <1>5, <1>6, <1>7
<1>9. {down'[i].v : i \in TransAt'} = (L + 1)..(bus.n + 1)
  <2>1. ASSUME NEW i \in TransAt' PROVE down'[i].v \in (L + 1)..(bus.n + 1)
    BY <1>2, <1>4, <1>5, <1>6, <1>7, <1>8
  <2>2. ASSUME NEW v \in (L + 1)..(bus.n + 1) PROVE \E i \in TransAt' : down'[i].v = v
    <3>1. CASE v = bus.n + 1
      BY <1>4, <1>5, <1>6, <3>1
    <3>2. CASE v # bus.n + 1
      <4>1. v \in (L + 1)..bus.n
        BY <1>2, <3>2
      <4>2. PICK i \in TransAt : down[i].v = v
        BY <1>7, <4>1
      <4> QED
        BY <1>6, <1>8, <4>2
    <3> QED
      BY <3>1, <3>2
  <2> QED
    BY <2>1, <2>2
<1>10. \A i, j \in TransAt' : i < j => down'[i].v < down'[j].v
  <2>1. SUFFICES ASSUME NEW i \in TransAt', NEW j \in TransAt', i < j PROVE down'[i].v < down'[j].v
    OBVIOUS
  <2>2. i \in TransAt
    BY <1>5, <1>6, <2>1
  <2>3. CASE j \in TransAt
    BY <1>7, <1>8, <2>1, <2>2, <2>3
  <2>4. CASE j = n + 1
    <3>1. down'[j].v = bus.n + 1
      BY <1>4, <1>5, <2>4
    <3>2. down'[i].v \in (L + 1)..bus.n
      BY <1>8, <2>2
    <3>3. bus.n \in Int /\ L \in Int
      BY <1>2
    <3> QED
      BY <3>1, <3>2, <3>3
  <2> QED
    BY <1>6, <2>3, <2>4
<1>11. Len(api'.trans) = L /\ api'.trans = api.trans
  BY <1>2 DEF L
<1>12. L <= bus'.n
  BY <1>2, <1>3, <1>7
<1> QED
  BY <1>3, <1>7, <1>9, <1>10, <1>11, <1>12 DEF TransInOrder

-----------------------------------------------------------------------------
(* Answers                                                                 *)

\* Packets that are no answers change nothing for the call that waits.
LEMMA WriteNoAnswer ==
    ASSUME ApiTypeOK, Waiting, NEW pkts \in Seq(Packet), ApiWrite(pkts), UNCHANGED <<api, up>>,
           \A i \in 1..Len(pkts) : pkts[i].k \notin {"OK", "ERR"}
    PROVE  Waiting'
<1> DEFINE n == Len(down) m == Len(down') k == Len(pkts)
<1>1. /\ DOMAIN down = 1..n /\ DOMAIN down' = 1..m /\ n \in Nat /\ m \in Nat /\ k \in Nat
      /\ n <= m /\ m <= n + k
      /\ \A i \in 1..n : down'[i] = down[i]
      /\ \A i \in (n + 1)..m : down'[i] = pkts[i - n]
  BY Written
<1>2. \A i \in 1..k : pkts[i].k \notin {"OK", "ERR"}
  OBVIOUS
<1> HIDE DEF n, m, k
<1>3. \A i \in DOMAIN down' : i \notin DOMAIN down => i \in (n + 1)..m /\ i - n \in 1..k
  BY <1>1
<1>4. \A i \in DOMAIN down' : i \notin DOMAIN down => down'[i].k \notin {"OK", "ERR"}
  BY <1>1, <1>2, <1>3
<1>5. /\ \A i \in DOMAIN down : i \in DOMAIN down'
      /\ \A i \in DOMAIN down' : i \in DOMAIN down => down'[i] = down[i]
  BY <1>1
<1>6. AnswerAt' = AnswerAt /\ \A i \in AnswerAt : down'[i] = down[i]
  BY <1>4, <1>5 DEF AnswerAt
<1> QED
  BY <1>6 DEF Waiting

\* The port answers the command it has taken, last and once.
LEMMA WriteAnswer ==
    ASSUME ApiTypeOK, Waiting, up # <<>>, up' = Tail(up), UNCHANGED api,
           NEW pkts \in Seq(Packet), ApiWrite(pkts),
           \A i \in 1..Len(pkts) : pkts[i].k \in {"OK", "ERR"} => i = Len(pkts) /\ pkts[i].n = api.n
    PROVE  Waiting'
<1> DEFINE n == Len(down) m == Len(down') k == Len(pkts)
<1>1. /\ DOMAIN down = 1..n /\ DOMAIN down' = 1..m /\ n \in Nat /\ m \in Nat /\ k \in Nat
      /\ n <= m /\ m <= n + k
      /\ \A i \in 1..n : down'[i] = down[i]
      /\ \A i \in (n + 1)..m : down'[i] = pkts[i - n]
  BY Written
<1>2. \A i \in 1..k : pkts[i].k \in {"OK", "ERR"} => i = k /\ pkts[i].n = api.n
  OBVIOUS
<1>3. up' = <<>>
  BY DEF ApiRecord, ApiTypeOK
<1> HIDE DEF n, m, k
<1>4. AnswerAt = {} /\ api.st = "sent"
  BY DEF Waiting
<1>5. ASSUME NEW i \in AnswerAt' PROVE i = n + k /\ down'[i].n = api.n
  <2>1. i \in DOMAIN down' /\ down'[i].k \in {"OK", "ERR"}
    BY DEF AnswerAt
  <2>2. i \notin 1..n
    BY <1>1, <1>4, <2>1 DEF AnswerAt
  <2>3. i \in Int /\ i \in (n + 1)..m /\ i - n \in 1..k
    BY <1>1, <2>1, <2>2
  <2>4. i - n = k /\ down'[i].n = api.n
    BY <1>1, <1>2, <2>1, <2>3
  <2> QED
    BY <1>1, <2>3, <2>4
<1> QED
  BY <1>3, <1>4, <1>5 DEF Waiting

\* The wait ends with the one answer there is, which is the call's.
LEMMA ReceiveKeepsWaiting ==
    ASSUME ApiTypeOK, Waiting, ReceivePacket
    PROVE  Waiting'
<1>1. /\ down # <<>> /\ down' = Tail(down) /\ api' = Receives(api, down[1]) /\ up' = up
      /\ api.st = "sent"
  BY Taken DEF ReceivePacket
<1>2. /\ down[1] \in Packet /\ 1 \in DOMAIN down
      /\ \A i \in DOMAIN down' : i \in Int /\ i + 1 \in DOMAIN down /\ down'[i] = down[i + 1]
      /\ \A i \in DOMAIN down' : i >= 1
  BY <1>1, Taken DEF ApiRecord, ApiTypeOK
<1>3. \A i \in AnswerAt' : i \in Int /\ i >= 1 /\ i + 1 \in AnswerAt /\ down'[i] = down[i + 1]
  BY <1>2 DEF AnswerAt
<1>4. \A i, j \in AnswerAt' : i = j
  <2>1. SUFFICES ASSUME NEW i \in AnswerAt', NEW j \in AnswerAt' PROVE i = j
    OBVIOUS
  <2>2. i \in Int /\ j \in Int /\ i + 1 = j + 1
    BY <1>3 DEF Waiting
  <2> QED
    BY <2>2
<1>5. CASE down[1].k \in {"OK", "ERR"}
  <2>1. 1 \in AnswerAt
    BY <1>2, <1>5 DEF AnswerAt
  <2>2. AnswerAt' = {}
    <3>1. SUFFICES ASSUME NEW i \in AnswerAt' PROVE FALSE
      OBVIOUS
    <3>2. i + 1 = 1 /\ i \in Int /\ i >= 1
      BY <1>3, <2>1 DEF Waiting
    <3> QED
      BY <3>2
  <2>3. up' = <<>>
    BY <1>1, <2>1 DEF Waiting
  <2>4. api'.st = "idle" /\ api'.got = down[1].n /\ api'.n = api.n
    BY <1>1, <1>5 DEF Receives, ApiRecord, ApiTypeOK
  <2>5. down[1].n = api.n
    BY <2>1 DEF Waiting
  <2> QED
    BY <2>2, <2>3, <2>4, <2>5 DEF Waiting
<1>6. CASE down[1].k \notin {"OK", "ERR"}
  <2>1. api'.st = api.st /\ api'.n = api.n
    BY <1>1, <1>2, <1>6 DEF Receives, ApiRecord, ApiTypeOK, Packet
  <2>2. \A i \in AnswerAt' : api'.st = "sent" /\ down'[i].n = api'.n
    BY <1>1, <1>3, <2>1 DEF Waiting
  <2>3. up' # <<>> => up'[1].n = api'.n /\ AnswerAt' = {}
    BY <1>1, <1>3, <2>1 DEF Waiting
  <2> QED
    BY <1>1, <1>4, <2>1, <2>2, <2>3 DEF Waiting
<1> QED
  BY <1>5, <1>6

-----------------------------------------------------------------------------
(* The text of a command                                                   *)

\* The library sends as many words as the port takes.
LEMMA WordsFit ==
    ASSUME NEW size \in {1, 2, 4, 8, 16, 32, 64}
    PROVE  ApiWords(size) = Limit(size) /\ Limit(size) \in Nat \ {0}
BY DEF ApiWords, Limit

\* A text cut in front of its second part, and after its first.
LEMMA DropFirst ==
    ASSUME NEW a \in Seq(Int), NEW b \in Seq(Int)
    PROVE  SubSeq(a \o b, Len(a) + 1, Len(a \o b)) = b
<1> DEFINE ab == a \o b r == SubSeq(ab, Len(a) + 1, Len(ab))
<1>1. /\ ab \in Seq(Int) /\ Len(ab) = Len(a) + Len(b) /\ Len(a) \in Nat /\ Len(b) \in Nat
      /\ \A i \in 1..(Len(a) + Len(b)) : ab[i] = IF i <= Len(a) THEN a[i] ELSE b[i - Len(a)]
  BY ConcatProperties
<1> HIDE DEF ab
<1>2. \A i \in (Len(a) + 1)..Len(ab) : ab[i] \in Int
  BY <1>1
<1>3. /\ r \in Seq(Int) /\ Len(r) = Len(b)
      /\ \A i \in 1..Len(b) : r[i] = ab[Len(a) + i]
  <2>1. /\ r \in Seq(Int)
        /\ Len(r) = IF Len(a) + 1 <= Len(ab) THEN Len(ab) - (Len(a) + 1) + 1 ELSE 0
        /\ \A i \in 1..(Len(ab) - (Len(a) + 1) + 1) : r[i] = ab[(Len(a) + 1) + i - 1]
    BY <1>1, <1>2, SubSeqProperties
  <2> QED
    BY <1>1, <2>1
<1>4. ASSUME NEW i \in 1..Len(b) PROVE r[i] = b[i]
  <2>1. /\ Len(a) + i \in 1..(Len(a) + Len(b)) /\ ~(Len(a) + i <= Len(a))
        /\ (Len(a) + i) - Len(a) = i
    BY <1>1
  <2>2. ab[Len(a) + i] = b[(Len(a) + i) - Len(a)]
    BY <1>1, <2>1
  <2> QED
    BY <1>3, <2>1, <2>2
<1> HIDE DEF r
<1>5. r = b
  BY <1>3, <1>4, SeqEqual
<1> QED
  BY <1>5 DEF r, ab

LEMMA TakeFirst ==
    ASSUME NEW a \in Seq(Int), NEW b \in Seq(Int)
    PROVE  SubSeq(a \o b, 1, Len(a)) = a
<1> DEFINE ab == a \o b r == SubSeq(ab, 1, Len(a))
<1>1. /\ ab \in Seq(Int) /\ Len(ab) = Len(a) + Len(b) /\ Len(a) \in Nat /\ Len(b) \in Nat
      /\ \A i \in 1..(Len(a) + Len(b)) : ab[i] = IF i <= Len(a) THEN a[i] ELSE b[i - Len(a)]
  BY ConcatProperties
<1> HIDE DEF ab
<1>2. \A i \in 1..Len(a) : ab[i] = a[i] /\ ab[i] \in Int
  BY <1>1
<1>3. /\ r \in Seq(Int) /\ Len(r) = Len(a)
      /\ \A i \in 1..Len(a) : r[i] = ab[i]
  <2>1. /\ r \in Seq(Int) /\ Len(r) = IF 1 <= Len(a) THEN Len(a) - 1 + 1 ELSE 0
        /\ \A i \in 1..(Len(a) - 1 + 1) : r[i] = ab[1 + i - 1]
    BY <1>1, <1>2, SubSeqProperties
  <2> QED
    BY <1>1, <2>1
<1> HIDE DEF r
<1>4. r = a
  BY <1>2, <1>3, SeqEqual
<1> QED
  BY <1>4 DEF r, ab

\* The data words of a text are those before its options.
LEMMA Leading ==
    ASSUME NEW d \in Seq(Int), NEW o \in {<<>>, <<OptTok>>}, \A i \in 1..Len(d) : d[i] # OptTok
    PROVE  LeadingWords(d \o o) = Len(d)
<1> DEFINE r == d \o o
           P(m) == (\A i \in 1..m : r[i] # OptTok) /\ (m < Len(r) => r[m + 1] = OptTok)
<1>1. o \in Seq(Int) /\ Len(o) \in {0, 1} /\ (Len(o) = 1 => o[1] = OptTok) /\ Len(d) \in Nat
  <2>1. CASE o = <<>>
    BY <2>1
  <2>2. CASE o = <<OptTok>>
    BY <2>2 DEF OptTok
  <2> QED
    BY <2>1, <2>2
<1>2. /\ r \in Seq(Int) /\ Len(r) = Len(d) + Len(o)
      /\ \A i \in 1..(Len(d) + Len(o)) : r[i] = IF i <= Len(d) THEN d[i] ELSE o[i - Len(d)]
  BY <1>1, ConcatProperties
<1> HIDE DEF r
<1>3. /\ \A i \in 1..Len(d) : r[i] # OptTok
      /\ Len(r) = Len(d) + 1 => r[Len(d) + 1] = OptTok
  <2>1. \A i \in 1..Len(d) : i \in 1..(Len(d) + Len(o)) /\ i <= Len(d)
    BY <1>1
  <2>2. Len(r) = Len(d) + 1 => /\ Len(d) + 1 \in 1..(Len(d) + Len(o)) /\ Len(o) = 1
                               /\ ~(Len(d) + 1 <= Len(d)) /\ (Len(d) + 1) - Len(d) = 1
    BY <1>1, <1>2
  <2>3. Len(r) = Len(d) + 1 => r[Len(d) + 1] = o[(Len(d) + 1) - Len(d)]
    BY <1>2, <2>2
  <2> QED
    BY <1>1, <1>2, <2>1, <2>2, <2>3
<1>a. Len(r) = Len(d) \/ Len(r) = Len(d) + 1
  <2>1. Len(r) = Len(d) + Len(o) /\ Len(d) \in Nat
    BY <1>1, <1>2
  <2>2. CASE Len(o) = 0
    BY <2>1, <2>2
  <2>3. CASE Len(o) = 1
    BY <2>1, <2>3
  <2> QED
    BY <1>1, <2>2, <2>3
<1>4. P(Len(d)) /\ Len(d) \in 0..Len(r)
  <2>1. Len(d) \in 0..Len(r) /\ (Len(d) < Len(r) => Len(r) = Len(d) + 1)
    BY <1>1, <1>a
  <2> QED
    BY <1>3, <2>1
<1>5. ASSUME NEW m \in 0..Len(r), P(m) PROVE m = Len(d)
  <2>1. m \in Int /\ 0 <= m /\ m <= Len(r) /\ Len(r) \in {Len(d), Len(d) + 1}
    BY <1>1, <1>a
  <2>2. CASE m < Len(d)
    <3>1. m + 1 \in 1..Len(d) /\ m < Len(r)
      BY <1>1, <2>1, <2>2
    <3> QED
      BY <1>3, <1>5, <3>1
  <2>3. CASE m > Len(d)
    <3>1. Len(r) = Len(d) + 1 /\ Len(d) + 1 \in 1..m
      BY <1>1, <2>1, <2>3
    <3> QED
      BY <1>3, <1>5, <3>1
  <2> QED
    BY <1>1, <2>1, <2>2, <2>3
<1>6. LeadingWords(r) \in 0..Len(r) /\ P(LeadingWords(r))
  <2>1. \E m \in 0..Len(r) : P(m)
    BY <1>4
  <2> QED
    BY <2>1, Zenon DEF LeadingWords
<1> HIDE DEF P
<1>7. LeadingWords(r) = Len(d)
  BY <1>5, <1>6
<1> QED
  BY <1>7 DEF r

\* What the port makes of a command is the words the program gave.
LEMMA BuildsWhatIsAsked ==
    ASSUME TransferSizes, NEW c \in Calls, c.op \in Transfers \ {"INT"}
    PROVE  Build(c, Encode(c)) = IF c.data THEN [i \in 1..Limit(c.size) |-> i] ELSE <<>>
<1> DEFINE w == Limit(c.size)
           d == IF c.data THEN [i \in 1..ApiWords(c.size) |-> i] ELSE <<>>
           o == Options(c)
           h == <<AddrTok>> \o (IF c.op = "READBLK" THEN <<>> ELSE <<SizeTok>>)
           k == IF HasSize(c.op) THEN 3 ELSE 2
           t == Encode(c)
           rest == SubSeq(t, k, Len(t))
<1>1. w \in Nat \ {0} /\ ApiWords(c.size) = w
  BY WordsFit DEF TransferSizes
<1>2. c.data \in BOOLEAN
  BY PliApiAssumption
<1>3. d \in Seq(Int) /\ Len(d) = (IF c.data THEN w ELSE 0) /\ \A i \in 1..Len(d) : d[i] = i
  <2>1. CASE c.data
    <3>1. d = [i \in 1..w |-> i]
      BY <1>1, <2>1
    <3>2. d \in Seq(Int) /\ Len(d) = w
      BY <1>1, <3>1
    <3> QED
      BY <2>1, <3>1, <3>2
  <2>2. CASE ~c.data
    BY <2>2
  <2> QED
    BY <1>2, <2>1, <2>2
<1>4. o \in {<<>>, <<OptTok>>} /\ o \in Seq(Int)
  BY DEF Options, OptTok
<1>5. h \in Seq(Int) /\ k = Len(h) + 1 /\ Len(h) \in Nat \ {0}
  <2>1. CASE c.op = "READBLK"
    BY <2>1 DEF AddrTok, HasSize
  <2>2. CASE c.op # "READBLK"
    <3>1. k = 3
      BY <2>2 DEF HasSize
    <3>2. <<AddrTok>> \in Seq(Int) /\ <<SizeTok>> \in Seq(Int)
          /\ Len(<<AddrTok>>) = 1 /\ Len(<<SizeTok>>) = 1
      BY DEF AddrTok, SizeTok
    <3>3. h = <<AddrTok>> \o <<SizeTok>>
      BY <2>2
    <3>4. h \in Seq(Int) /\ Len(h) = 2
      BY <3>2, <3>3, ConcatProperties
    <3> QED
      BY <3>1, <3>4
  <2> QED
    BY <2>1, <2>2
<1>6. t = (h \o d) \o o
  BY DEF Encode
<1> HIDE DEF d, o, h, t, k, w
<1>7. t = h \o (d \o o)
  <2>1. h \in Seq(Int) /\ d \in Seq(Int) /\ o \in Seq(Int)
    BY <1>3, <1>4, <1>5
  <2>2. (h \o d) \o o = h \o (d \o o)
    BY <2>1, ConcatAssociative
  <2> QED
    BY <1>6, <2>2
<1>8. d \o o \in Seq(Int) /\ t \in Seq(Int) /\ Len(t) > 0
  <2>1. d \o o \in Seq(Int) /\ Len(d \o o) \in Nat
    BY <1>3, <1>4, ConcatProperties
  <2>2. t \in Seq(Int) /\ Len(t) = Len(h) + Len(d \o o)
    BY <1>5, <1>7, <2>1, ConcatProperties
  <2> QED
    BY <1>5, <2>1, <2>2
<1>9. rest = d \o o
  BY <1>5, <1>7, <1>8, DropFirst
<1>10. LeadingWords(rest) = Len(d)
  <2>1. \A i \in 1..Len(d) : d[i] # OptTok
    BY <1>3 DEF OptTok
  <2> QED
    BY <1>3, <1>4, <1>9, <2>1, Leading
<1>11. t # <<>>
  BY <1>8
<1>12. Build(c, t) = SubSeq(rest, 1, IF Len(d) < w THEN Len(d) ELSE w)
  BY <1>10, <1>11 DEF Build, w, k
<1>13. (IF Len(d) < w THEN Len(d) ELSE w) = Len(d)
  BY <1>1, <1>2, <1>3
<1>14. Build(c, t) = d
  BY <1>3, <1>4, <1>9, <1>12, <1>13, TakeFirst
<1> QED
  BY <1>1, <1>14 DEF t, d, w

-----------------------------------------------------------------------------
(* The invariant                                                           *)

\* A sequence of packets with the answer to call n last, and no other.
Answering(pkts, n) ==
    /\ pkts \in Seq(Packet)
    /\ \A i \in 1..Len(pkts) : /\ pkts[i].k # "TRANSINFO"
                               /\ pkts[i].k \in {"OK", "ERR"} => i = Len(pkts) /\ pkts[i].n = n

\* The packets a command is answered with: device information if it asks for
\* it, and the answer.
LEMMA FetchPackets ==
    ASSUME NEW n \in Nat, NEW pre \in {<<>>, Devices(n)}, NEW status \in {"OK", "ERR"}
    PROVE  Answering(Append(pre, ApiAnswer(status, n, 0)), n)
<1> DEFINE a == ApiAnswer(status, n, 0)
           pkts == Append(pre, a)
<1>1. a \in Packet /\ a.k # "TRANSINFO" /\ a.n = n
  BY DEF ApiAnswer, Packet
<1>2. pre \in Seq(Packet) /\ \A i \in 1..Len(pre) : pre[i].k = "DEVICEINFO"
  <2>1. CASE pre = <<>>
    BY <2>1
  <2>2. CASE pre = Devices(n)
    <3>1. \A i \in 1..NumDev : ApiAnswer("DEVICEINFO", n, i) \in Packet
      BY DEF ApiAnswer, Packet
    <3>2. pre = [i \in 1..NumDev |-> ApiAnswer("DEVICEINFO", n, i)] /\ NumDev \in Nat
      BY <2>2, PliApiAssumption DEF Devices
    <3>3. pre \in Seq(Packet) /\ Len(pre) = NumDev
      BY <3>1, <3>2
    <3>4. \A i \in 1..NumDev : pre[i].k = "DEVICEINFO"
      BY <3>2 DEF ApiAnswer
    <3> QED
      BY <3>3, <3>4
  <2> QED
    BY <2>1, <2>2
<1> HIDE DEF a
<1>3. /\ pkts \in Seq(Packet) /\ Len(pkts) = Len(pre) + 1 /\ Len(pre) \in Nat
      /\ \A i \in 1..Len(pre) : pkts[i] = pre[i]
      /\ pkts[Len(pre) + 1] = a
  BY <1>1, <1>2
<1> HIDE DEF pkts
<1>4. ASSUME NEW i \in 1..Len(pkts)
      PROVE  /\ pkts[i].k # "TRANSINFO"
             /\ pkts[i].k \in {"OK", "ERR"} => i = Len(pkts) /\ pkts[i].n = n
  <2>1. CASE i = Len(pkts)
    BY <1>1, <1>3, <2>1
  <2>2. CASE i # Len(pkts)
    <3>1. i \in 1..Len(pre)
      BY <1>3, <2>2
    <3>2. pkts[i].k = "DEVICEINFO"
      BY <1>2, <1>3, <3>1
    <3> QED
      BY <3>2
  <2> QED
    BY <2>1, <2>2
<1> QED
  BY <1>3, <1>4 DEF pkts, a, Answering

LEMMA ApiInitInv == ApiInit => ApiInv
<1> SUFFICES ASSUME ApiInit PROVE ApiInv
  OBVIOUS
<1> USE DEF ApiInit
<1>1. ApiTypeOK
  <2>1. <<>> \in Seq(Nat) /\ <<>> \in Seq(Message) /\ <<>> \in Seq(Packet) /\ Len(<<>>) = 0
    OBVIOUS
  <2>2. api \in ApiRecord
    <3>1. "none" \in {c.op : c \in Calls} \union {"none"} /\ {} \in SUBSET Nat
      OBVIOUS
    <3>2. 0 \in Nat
      OBVIOUS
    <3> QED
      BY <2>1, <3>1, <3>2, Zenon DEF ApiRecord
  <2>3. bus \in [n : Nat, lost : BOOLEAN]
    OBVIOUS
  <2>4. DOMAIN srv = {"conf", "cmd", "built", "asked", "failed", "polled", "resets"}
    OBVIOUS
  <2>5. up \in Seq(Message) /\ Len(up) <= 1 /\ down \in Seq(Packet) /\ Len(down) <= PipeCap
    BY <2>1, PliApiAssumption
  <2> QED
    BY <2>2, <2>3, <2>4, <2>5 DEF ApiRecord, ApiTypeOK
<1>2. AnswerAt = {} /\ TransAt = {}
  BY DEF AnswerAt, TransAt
<1>3. Waiting
  BY <1>2 DEF Waiting
<1>4. TransInOrder
  <2>1. Len(api.trans) = 0 /\ DOMAIN api.trans = {} /\ bus.n = 0
    OBVIOUS
  <2>2. (Len(api.trans) + 1)..bus.n = {}
    BY <2>1
  <2> QED
    BY <1>2, <2>1, <2>2 DEF TransInOrder
<1>5. Decoded
  BY DEF Decoded, Transfers
<1> QED
  BY <1>1, <1>3, <1>4, <1>5 DEF ApiInv

\* A call of the program.
LEMMA CallInv ==
    ASSUME ApiInv, NEW c \in Calls, Call(c)
    PROVE  ApiInv'
<1> DEFINE m == [c |-> c, toks |-> Encode(c), n |-> api.n + 1]
<1>1. /\ api.st = "idle" /\ api' = [api EXCEPT !.st = "sent", !.n = @ + 1, !.call = c.op]
      /\ up' = Append(up, m) /\ UNCHANGED <<down, srv, bus>>
  BY DEF Call
<1>2. up = <<>> /\ AnswerAt = {}
  BY <1>1 DEF ApiInv, Waiting
<1>3. m \in Message /\ m.n = api.n + 1 /\ m.toks = Encode(m.c)
  BY PliApiAssumption DEF ApiInv, ApiRecord, ApiTypeOK, Message
<1> HIDE DEF m
<1>4. up' \in Seq(Message) /\ Len(up') = 1 /\ DOMAIN up' = {1} /\ up'[1] = m
  BY <1>1, <1>2, <1>3
<1>5. ApiTypeOK'
  <2>1. api \in ApiRecord
    BY DEF ApiInv, ApiTypeOK
  <2> DEFINE k == api.n + 1 f == c.op
  <2>a. k \in Nat /\ f \in {x.op : x \in Calls} \union {"none"}
    BY <1>3, <2>1 DEF ApiRecord
  <2>b. api' = [api EXCEPT !.st = "sent", !.n = k, !.call = f]
    BY <1>1
  <2> HIDE DEF k, f
  <2>2. api' \in ApiRecord
    BY <2>1, <2>a, <2>b DEF ApiRecord
  <2> QED
    BY <1>1, <1>4, <2>2 DEF ApiInv, ApiTypeOK
<1>6. /\ api'.st = "sent" /\ api'.n = api.n + 1 /\ api'.trans = api.trans
      /\ AnswerAt' = {} /\ TransAt' = TransAt
  BY <1>1, <1>2 DEF ApiInv, ApiRecord, ApiTypeOK, AnswerAt, TransAt
<1>7. Waiting'
  BY <1>3, <1>4, <1>6 DEF Waiting
<1>8. TransInOrder'
  BY <1>1, <1>6 DEF ApiInv, TransInOrder
<1>9. Decoded'
  BY <1>1, <1>3, <1>4 DEF ApiInv, Decoded
<1> QED
  BY <1>5, <1>7, <1>8, <1>9 DEF ApiInv

\* A packet is received.
LEMMA ReceiveInv ==
    ASSUME ApiInv, ReceivePacket
    PROVE  ApiInv'
<1>1. /\ down # <<>> /\ down' = Tail(down) /\ api' = Receives(api, Head(down))
      /\ UNCHANGED <<up, srv, bus>>
  BY DEF ReceivePacket
<1>2. down' \in Seq(Packet) /\ Len(down') <= PipeCap /\ Head(down) \in Packet
  BY <1>1, Taken DEF ApiInv
<1>3. api' \in ApiRecord
  <2> DEFINE p == Head(down)
  <2>1. p \in Packet /\ api' = Receives(api, p) /\ api \in ApiRecord
    BY <1>1, <1>2 DEF ApiInv, ApiTypeOK
  <2> HIDE DEF p
  <2>2. CASE p.k = "TRANSINFO"
    <3>1. Append(api.trans, p.v) \in Seq(Nat)
      BY <2>1 DEF ApiRecord, Packet
    <3> QED
      BY <2>1, <2>2, <3>1 DEF Receives, ApiRecord
  <2>3. CASE p.k = "RESET"
    BY <2>1, <2>3 DEF Receives, ApiRecord
  <2>4. CASE p.k = "DEVICEINFO"
    BY <2>1, <2>4 DEF Receives, ApiRecord, Packet
  <2>5. CASE p.k \in {"OK", "ERR"}
    BY <2>1, <2>5 DEF Receives, ApiRecord, Packet
  <2> QED
    BY <2>1, <2>2, <2>3, <2>4, <2>5 DEF Packet
<1>4. ApiTypeOK'
  BY <1>1, <1>2, <1>3 DEF ApiInv, ApiRecord, ApiTypeOK
<1>5. Decoded'
  BY <1>1 DEF ApiInv, Decoded
<1> QED
  BY <1>4, <1>5, ReceiveKeepsTrans, ReceiveKeepsWaiting DEF ApiInv

\* The port answers a command.
LEMMA AnswerInv ==
    ASSUME ApiInv, up # <<>>, up' = Tail(up), UNCHANGED api,
           NEW pkts, Answering(pkts, api.n), ApiWrite(pkts),
           DOMAIN srv' = DOMAIN srv,
           srv'.cmd \in Transfers =>
               \/ srv'.cmd = srv.cmd /\ srv'.asked = srv.asked /\ srv'.built = srv.built
               \/ /\ srv'.asked = up[1].c /\ srv'.cmd = srv'.asked.op
                  /\ srv'.built = Build(up[1].c, up[1].toks)
    PROVE  ApiInv'
<1>1. up' = <<>> /\ up[1] \in Message /\ up[1].toks = Encode(up[1].c)
  BY DEF ApiInv, ApiRecord, ApiTypeOK, Decoded
<1>2. /\ down' \in Seq(Packet) /\ Len(down') <= PipeCap
      /\ bus' \in [n : Nat, lost : BOOLEAN]
  BY Written DEF ApiInv, Answering
<1>3. ApiTypeOK'
  <2>1. <<>> \in Seq(Message) /\ Len(<<>>) = 0
    OBVIOUS
  <2> QED
    BY <1>1, <1>2, <2>1 DEF ApiInv, ApiRecord, ApiTypeOK
<1>4. Waiting'
  BY WriteAnswer DEF ApiInv, Answering
<1>5. TransInOrder'
  BY WriteKeepsTrans DEF ApiInv, Answering
<1>6. Decoded'
  <2>1. up[1].c \in Calls
    BY <1>1 DEF Message
  <2> QED
    BY <1>1, <2>1 DEF ApiInv, Decoded
<1> QED
  BY <1>3, <1>4, <1>5, <1>6 DEF ApiInv

LEMMA ConfigureInv ==
    ASSUME ApiInv, Configure
    PROVE  ApiInv'
<1> DEFINE m == up[1]
<1>1. /\ up # <<>> /\ up' = Tail(up) /\ UNCHANGED api /\ m \in Message
      /\ srv' = [srv EXCEPT !.conf = (m.c.op = "CONFIG"),
                            !.failed = m.c.op \notin {"CONFIG", "PRINT", "ERROR"}]
      /\ IF m.c.op \in {"CONFIG", "PRINT", "ERROR"} THEN ApiWrite(<<ApiAnswer("OK", m.n, 0)>>)
         ELSE UNCHANGED <<down, bus>>
  <2>1. Head(up) = up[1] /\ up[1] \in Message
    BY DEF Configure, ApiInv, ApiTypeOK
  <2> QED
    BY <2>1 DEF Configure
<1>2. m.n = api.n /\ api.n \in Nat
  BY <1>1 DEF ApiInv, ApiTypeOK, ApiRecord, Waiting
<1>3. /\ DOMAIN srv' = DOMAIN srv
      /\ srv'.cmd = srv.cmd /\ srv'.asked = srv.asked /\ srv'.built = srv.built
  BY <1>1 DEF ApiInv, ApiTypeOK
<1>4. CASE m.c.op \in {"CONFIG", "PRINT", "ERROR"}
  <2> DEFINE pkts == Append(<<>>, ApiAnswer("OK", m.n, 0))
  <2>1. Answering(pkts, m.n)
    BY <1>2, FetchPackets
  <2>2. ApiWrite(pkts)
    BY <1>1, <1>4
  <2> HIDE DEF pkts
  <2> QED
    BY <1>1, <1>2, <1>3, <2>1, <2>2, AnswerInv
<1>5. CASE m.c.op \notin {"CONFIG", "PRINT", "ERROR"}
  <2>1. up' = <<>> /\ down' = down /\ bus' = bus /\ api' = api
    BY <1>1, <1>5 DEF ApiInv, ApiTypeOK
  <2>2. ApiTypeOK'
    <3>1. <<>> \in Seq(Message) /\ Len(<<>>) = 0
      OBVIOUS
    <3> QED
      BY <1>3, <2>1, <3>1 DEF ApiInv, ApiTypeOK
  <2>3. Waiting'
    BY <2>1 DEF ApiInv, Waiting, AnswerAt
  <2>4. TransInOrder'
    BY <2>1 DEF ApiInv, TransInOrder, TransAt
  <2>5. Decoded'
    BY <1>3, <2>1 DEF ApiInv, Decoded
  <2> QED
    BY <2>2, <2>3, <2>4, <2>5 DEF ApiInv
<1> QED
  BY <1>4, <1>5

LEMMA FetchInv ==
    ASSUME ApiInv, FetchCmd
    PROVE  ApiInv'
<1> DEFINE m == up[1]
           pre == IF m.c.op = "SSPINFO" THEN Devices(m.n) ELSE <<>>
           status == IF m.c.op \in Unknown THEN "ERR" ELSE "OK"
           pkts == Append(pre, ApiAnswer(status, m.n, 0))
<1>1. /\ up # <<>> /\ up' = Tail(up) /\ UNCHANGED api /\ m \in Message
      /\ srv' = IF m.c.op \in Silent \union {"CHECKDONE", "SSPINFO"} THEN srv
                ELSE [srv EXCEPT !.cmd = m.c.op, !.asked = m.c, !.built = Build(m.c, m.toks)]
      /\ ApiWrite(pkts)
  <2>1. Head(up) = up[1] /\ up[1] \in Message
    BY DEF FetchCmd, ApiInv, ApiTypeOK
  <2> QED
    BY <2>1 DEF FetchCmd
<1>2. m.n = api.n /\ api.n \in Nat
  BY <1>1 DEF ApiInv, ApiTypeOK, ApiRecord, Waiting
<1>3. Answering(pkts, m.n)
  <2>1. pre \in {<<>>, Devices(m.n)} /\ status \in {"OK", "ERR"}
    OBVIOUS
  <2> HIDE DEF pre, status
  <2> QED
    BY <1>2, <2>1, FetchPackets
<1> HIDE DEF pkts
<1>4. DOMAIN srv' = DOMAIN srv
  BY <1>1 DEF ApiInv, ApiTypeOK
<1>5. \/ srv'.cmd = srv.cmd /\ srv'.asked = srv.asked /\ srv'.built = srv.built
      \/ srv'.asked = m.c /\ srv'.cmd = srv'.asked.op /\ srv'.built = Build(m.c, m.toks)
  <2> DEFINE b == Build(m.c, m.toks) x == m.c f == m.c.op
  <2>1. CASE srv' = srv
    BY <2>1
  <2>2. CASE srv' = [srv EXCEPT !.cmd = f, !.asked = x, !.built = b]
    <3>1. f = x.op
      OBVIOUS
    <3> HIDE DEF b, x, f
    <3>2. srv'.cmd = f /\ srv'.asked = x /\ srv'.built = b
      BY <2>2 DEF ApiInv, ApiTypeOK
    <3> QED
      BY <3>1, <3>2 DEF b, x
  <2> QED
    BY <1>1, <2>1, <2>2
<1> QED
  BY <1>1, <1>2, <1>3, <1>4, <1>5, AnswerInv

\* SJM::Reset: the packet is no answer, and there is no command any more.
LEMMA ResetInv ==
    ASSUME ApiInv, ServerReset
    PROVE  ApiInv'
<1> DEFINE pkts == <<ApiAnswer("RESET", 0, 0)>>
<1>1. /\ UNCHANGED <<api, up>> /\ ApiWrite(pkts)
      /\ srv' = [srv EXCEPT !.cmd = "none", !.resets = @ + 1]
  BY DEF ServerReset
<1>2. pkts \in Seq(Packet) /\ Len(pkts) = 1 /\ pkts[1].k = "RESET"
  BY DEF ApiAnswer, Packet
<1> HIDE DEF pkts
<1>3. /\ \A i \in 1..Len(pkts) : pkts[i].k # "TRANSINFO"
      /\ \A i \in 1..Len(pkts) : pkts[i].k \notin {"OK", "ERR"}
  BY <1>2
<1>4. DOMAIN srv' = DOMAIN srv /\ srv'.cmd = "none"
  BY <1>1 DEF ApiInv, ApiTypeOK
<1>5. /\ down' \in Seq(Packet) /\ Len(down') <= PipeCap
      /\ bus' \in [n : Nat, lost : BOOLEAN]
  BY <1>1, <1>2, Written DEF ApiInv
<1>6. ApiTypeOK'
  BY <1>1, <1>4, <1>5 DEF ApiInv, ApiTypeOK
<1>7. Waiting'
  BY <1>1, <1>2, <1>3, WriteNoAnswer DEF ApiInv
<1>8. TransInOrder'
  BY <1>1, <1>2, <1>3, WriteKeepsTrans DEF ApiInv
<1>9. Decoded'
  BY <1>1, <1>4 DEF ApiInv, Decoded, Transfers
<1> QED
  BY <1>6, <1>7, <1>8, <1>9 DEF ApiInv

\* An address cycle on the bus.
LEMMA BusInv ==
    ASSUME ApiInv, BusTransaction
    PROVE  ApiInv'
<1> DEFINE n == Len(down) p == ApiAnswer("TRANSINFO", 0, bus.n + 1)
<1>1. /\ down' = IF n < PipeCap THEN Append(down, p) ELSE down
      /\ bus' = [n |-> bus.n + 1, lost |-> bus.lost \/ ~(n < PipeCap)]
      /\ UNCHANGED <<api, up, srv>>
  BY DEF BusTransaction
<1>2. p \in Packet /\ p.k = "TRANSINFO"
  BY DEF ApiAnswer, Packet, ApiInv, ApiTypeOK
<1>3. down \in Seq(Packet) /\ n \in Nat /\ n <= PipeCap
  BY DEF ApiInv, ApiTypeOK
<1> HIDE DEF p
<1>4. /\ down' \in Seq(Packet) /\ Len(down') <= PipeCap
      /\ \A i \in DOMAIN down : i \in DOMAIN down' /\ down'[i] = down[i]
      /\ \A i \in DOMAIN down' : i \in DOMAIN down \/ down'[i] = p
  <2>1. CASE n < PipeCap
    BY <1>1, <1>2, <1>3, <2>1, PliApiAssumption
  <2>2. CASE ~(n < PipeCap)
    BY <1>1, <1>3, <2>2
  <2> QED
    BY <2>1, <2>2
<1>5. bus' \in [n : Nat, lost : BOOLEAN]
  BY <1>1 DEF ApiInv, ApiTypeOK
<1>6. ApiTypeOK'
  BY <1>1, <1>4, <1>5 DEF ApiInv, ApiTypeOK
<1>7. Waiting'
  <2>1. AnswerAt' = AnswerAt /\ \A i \in AnswerAt : down'[i] = down[i]
    BY <1>2, <1>4 DEF AnswerAt
  <2> QED
    BY <1>1, <2>1 DEF ApiInv, Waiting
<1>8. Decoded'
  BY <1>1 DEF ApiInv, Decoded
<1> QED
  BY <1>6, <1>7, <1>8, BusKeepsTrans DEF ApiInv

\* The steps that move no packet.
LEMMA LocalInv ==
    ASSUME ApiInv, ResetAsserted \/ Exit \/ PollEmpty \/ CommandDone \/ UNCHANGED apiVars
    PROVE  ApiInv'
<1>1. /\ UNCHANGED <<up, down, bus>> /\ DOMAIN srv' = DOMAIN srv
      /\ \/ srv'.cmd = srv.cmd /\ srv'.asked = srv.asked /\ srv'.built = srv.built
         \/ srv'.cmd = "none"
  BY DEF ResetAsserted, Exit, PollEmpty, CommandDone, apiVars, ApiInv, ApiTypeOK
<1>2. /\ api' \in ApiRecord /\ api'.n = api.n /\ api'.got = api.got /\ api'.trans = api.trans
      /\ api'.st = api.st \/ (api.st = "idle" /\ api'.st = "exited")
  <2>1. api \in ApiRecord
    BY DEF ApiInv, ApiTypeOK
  <2>2. CASE api' = api
    BY <2>1, <2>2
  <2>3. CASE ResetAsserted
    BY <2>1, <2>3 DEF ResetAsserted, ApiRecord
  <2>4. CASE Exit
    BY <2>1, <2>4 DEF Exit, ApiRecord
  <2> QED
    BY <2>2, <2>3, <2>4 DEF PollEmpty, CommandDone, apiVars
<1>3. ApiTypeOK'
  BY <1>1, <1>2 DEF ApiInv, ApiTypeOK
<1>4. Waiting'
  BY <1>1, <1>2 DEF ApiInv, Waiting, AnswerAt
<1>5. TransInOrder'
  BY <1>1, <1>2 DEF ApiInv, TransInOrder, TransAt
<1>6. Decoded'
  BY <1>1 DEF ApiInv, Decoded, Transfers
<1> QED
  BY <1>3, <1>4, <1>5, <1>6 DEF ApiInv

\* The invariant of the library and the port: at most one command is on its way,
\* it has no answer yet, and the answer in the pipe belongs to the call that waits.
THEOREM ApiInvariance == ApiSpec => []ApiInv
<1>1. ApiInit => ApiInv
  BY ApiInitInv
<1>2. ApiInv /\ [ApiNext]_apiVars => ApiInv'
  <2> SUFFICES ASSUME ApiInv, [ApiNext]_apiVars PROVE ApiInv'
    OBVIOUS
  <2>1. CASE \E c \in Calls : Call(c)
    BY <2>1, CallInv
  <2>2. CASE ReceivePacket
    BY <2>2, ReceiveInv
  <2>3. CASE Configure
    BY <2>3, ConfigureInv
  <2>4. CASE FetchCmd
    BY <2>4, FetchInv
  <2>5. CASE BusTransaction
    BY <2>5, BusInv
  <2>6. CASE ServerReset
    BY <2>6, ResetInv
  <2>7. CASE ResetAsserted \/ Exit \/ PollEmpty \/ CommandDone \/ UNCHANGED apiVars
    BY <2>7, LocalInv
  <2> QED
    BY <2>1, <2>2, <2>3, <2>4, <2>5, <2>6, <2>7 DEF ApiNext
<1> QED
  BY <1>1, <1>2, PTL DEF ApiSpec

\* send_cmd returns with the answer to the command it sent and leaves none in the
\* pipe, and TRANSACTION_INFO sees the transactions of the bus in order: for any
\* program, any pipe and any number of resets and transactions in between.
THEOREM AnswersOwn == ApiSpec => [](OwnAnswer /\ TransInOrder)
<1>1. ApiInv => OwnAnswer /\ TransInOrder
  BY DEF ApiInv, Waiting, OwnAnswer
<1> QED
  BY <1>1, ApiInvariance, PTL

\* For a program whose transfers have the sizes of the JBus, what the port runs is
\* what was asked for as well.
THEOREM ApiAnswersMatch == ASSUME TransferSizes PROVE ApiSpec => []AnswersMatch
<1>1. ApiInv => AnswersMatch
  <2> SUFFICES ASSUME ApiInv PROVE BuiltAsAsked
    BY DEF AnswersMatch, ApiInv, Waiting, OwnAnswer
  <2> SUFFICES ASSUME srv.cmd \in Transfers \ {"INT"}
               PROVE  srv.built = IF srv.asked.data THEN [i \in 1..Limit(srv.asked.size) |-> i] ELSE <<>>
    BY DEF BuiltAsAsked
  <2>1. /\ srv.asked \in Calls /\ srv.asked.op \in Transfers \ {"INT"}
        /\ srv.built = Build(srv.asked, Encode(srv.asked))
    BY DEF ApiInv, Decoded
  <2> QED
    BY <2>1, BuildsWhatIsAsked
<1> QED
  BY <1>1, ApiInvariance, PTL
-----------------------------------------------------------------------------
(***************************************************************************)
(* The i/o bridge.  What makes its answers right although packets are      *)
(* recycled: until it is answered, a request is in exactly one place - in  *)
(* pcx_list, in a read a device is being sent or has to reply to, or in    *)
(* the packets to the cores - and the object it is kept in is nobody       *)
(* else's.                                                                 *)
(***************************************************************************)
\* The bridge from manual_init on, clocked by the core and by the bus.
IobSpec == IobInit /\ [][IobNext]_iobVars

IobRegions == {"rom", "dram0", "dram1", "jbi", "iob", "avail", "intr", "none"}
IobLines == {m.line : m \in IobMenu} \cup {"none", "avail", "io", "rom0"}
BridgeRequests ==
    [cpu : IobCpus, thr : 0..3, rq : {"imiss", "load", "store"},
     region : IobRegions, line : IobLines, target : IobCpus]

\* What the objects of the three packet classes hold.
Packets == [cpu : Nat, thr : Nat, rq : {"imiss", "load", "store", "int"},
            region : IobRegions, line : IobLines, target : Nat, tag : Nat,
            wait : Nat, io_wait : BOOLEAN]
CpxPackets == [cpu : Nat, thr : Nat, tag : Nat, line : IobLines,
               rq : {"ifill_ret", "load_ret", "int_ret", "st_ack"},
               req_wait : Nat, cpx_wait : Nat, sent : Nat]
UcbPackets ==
    {u \in [type : {"read", "write"}, thr : {0}, tag : Nat, wait : 0..1,
            ready : BOOLEAN, vld : BOOLEAN, left : 0..UcbWords] :
        IF u.wait = 1 THEN u.left = UcbWords ELSE u.vld <=> u.left > 0}

\* The lists have their types; a list of objects holds objects that exist.
ListFields == {"mem", "heap", "pcx", "load", "jload", "cpx", "dev", "dram0",
               "dram1", "data", "q", "req", "vld", "spurious"}
IsLists(s) ==
    /\ DOMAIN s = ListFields
    /\ s.mem \in Seq(Packets)
    /\ s.pcx \in Seq(1..Len(s.mem)) /\ s.heap \in Seq(1..Len(s.mem))
    /\ s.load \in [0..1 -> Seq(1..Len(s.mem))]
    /\ s.jload \in [0..1 -> Seq(1..Len(s.mem))]
    /\ s.cpx \in Seq(CpxPackets)
    /\ s.dev \in Seq(UcbPackets)
    /\ s.dram0 \in Seq(UcbPackets) /\ s.dram1 \in Seq(UcbPackets)
    /\ s.data \in IobLines

\* The three interfaces, DRAM 0 and 1 and the JBus: what is being sent on
\* one, and the loads of thread 0 its replies are read into.
PortOf(region) == CASE region = "dram0" -> 0 [] region = "dram1" -> 1 [] OTHER -> 2
Sending(s, w) == IF w = 2 THEN s.dev ELSE IF w = 1 THEN s.dram1 ELSE s.dram0
Loading(s, w) == IF w = 2 THEN s.jload[0] ELSE s.load[0]

IsRequest(asked, i) == i \in 1..Len(asked) /\ asked[i] # Event

\* A packet still says what was asked for.
Fits(asked, p) ==
    IF p.rq = "int" THEN p.tag = 0 /\ ~p.io_wait
    ELSE /\ IsRequest(asked, p.tag)
         /\ LET m == asked[p.tag]
            IN  /\ p.cpu = m.cpu /\ p.thr = m.thr /\ p.rq = m.rq
                /\ p.region = m.region /\ p.line = m.line /\ p.target = m.target
                /\ p.io_wait <=> IoLoad(m)

\* Packet a answers request m.
Matches(m, a) ==
    /\ a.cpu = m.cpu /\ a.thr = m.thr
    /\ a.rq = CASE m.rq = "imiss" -> "ifill_ret" [] m.rq = "load" -> "load_ret"
                [] OTHER -> "st_ack"
    /\ m.region = "rom" /\ m.rq # "store" => a.line = m.line
    /\ IoLoad(m) => a.line = "io"

\* The three places of request i: queued, with a device, or answered in
\* out, the packets on the wires and those still to go there.
Queued(s, i) == \E k \in 1..Len(s.pcx) : s.mem[s.pcx[k]].tag = i
Live(s, w, k) == /\ k \in 1..Len(Sending(s, w))
                 /\ Sending(s, w)[k].type = "read" /\ Sending(s, w)[k].left > 0
Open(s, replies, i) ==
    \/ \E w \in 0..2 : \E k \in 1..Len(Sending(s, w)) :
          Live(s, w, k) /\ Sending(s, w)[k].tag = i
    \/ \E r \in replies : r.tag = i
Acked(out, i) == \E k \in 1..Len(out) : out[k].tag = i /\ out[k].rq # "int_ret"

\* No object is twice in the queue or on the heap, or in both.
Objects(s) ==
    /\ \A j, k \in 1..Len(s.pcx) : s.pcx[j] = s.pcx[k] => j = k
    /\ \A j, k \in 1..Len(s.heap) : s.heap[j] = s.heap[k] => j = k
    /\ \A j \in 1..Len(s.pcx), k \in 1..Len(s.heap) : s.pcx[j] # s.heap[k]

\* A queued request is queued once, as it was asked, and is not answered.
InQueue(s, asked, out) ==
    /\ \A k \in 1..Len(s.pcx) :
          LET p == s.mem[s.pcx[k]]
          IN  Fits(asked, p) /\ (p.tag > 0 => ~Acked(out, p.tag))
    /\ \A j, k \in 1..Len(s.pcx) :
          s.mem[s.pcx[j]].tag = s.mem[s.pcx[k]].tag /\ s.mem[s.pcx[j]].tag > 0
             => j = k

\* Request i is with interface w: the reply will be read into an object that
\* still holds it, and that neither the queue nor the heap has.
Expected(s, asked, out, w, i) ==
    /\ IsRequest(asked, i) /\ IoLoad(asked[i]) /\ PortOf(asked[i].region) = w
    /\ ~Queued(s, i) /\ ~Acked(out, i)
    /\ Loading(s, w) # <<>>
    /\ LET id == Loading(s, w)[1]
       IN  /\ \A k \in 1..Len(s.pcx) : s.pcx[k] # id
           /\ \A k \in 1..Len(s.heap) : s.heap[k] # id
           /\ s.mem[id].tag = i /\ Fits(asked, s.mem[id])

\* Each read with a device is expected, and there is one of it.
AtDevice(s, asked, replies, out) ==
    /\ \A w \in 0..2 : \A k \in 1..Len(Sending(s, w)) : Live(s, w, k) =>
          /\ Expected(s, asked, out, w, Sending(s, w)[k].tag)
          /\ \A l \in 1..Len(Sending(s, w)) :
                Live(s, w, l) /\ Sending(s, w)[l].tag = Sending(s, w)[k].tag
                   => l = k
          /\ \A r \in replies : r.tag # Sending(s, w)[k].tag
    /\ \A r \in replies : Expected(s, asked, out, r.where, r.tag)

\* What pcx_load and jpcx_load keep was asked for and has left the queue.
Loaded(s, asked) ==
    \A w \in 0..2 : Loading(s, w) # <<>> =>
        \E i \in 1..Len(asked) :
            /\ IoLoad(asked[i]) /\ ~Queued(s, i)
            /\ set_dev(asked[i].region) = IF w = 2 THEN 2 ELSE 1

\* What the cores are told answers what they asked, once.
Answered(asked, out) ==
    /\ \A k \in 1..Len(out) : out[k].rq # "int_ret" =>
          IsRequest(asked, out[k].tag) /\ Matches(asked[out[k].tag], out[k])
    /\ \A j, k \in 1..Len(out) :
          /\ out[j].rq # "int_ret" /\ out[k].rq # "int_ret"
          /\ out[j].tag = out[k].tag
          => j = k

\* No request is lost, and an interrupt write is not without its interrupt.
Accounted(s, asked, replies, out) ==
    \A i \in 1..Len(asked) : asked[i] # Event =>
        /\ Queued(s, i) \/ Open(s, replies, i) \/ Acked(out, i)
        /\ asked[i].region = "intr" =>
              \/ Queued(s, i)
              \/ \E k \in 1..Len(out) :
                    out[k].tag = i /\ out[k].rq = "int_ret" /\ out[k].cpu = asked[i].target

BridgeSound(s, asked, replies, out) ==
    /\ IsLists(s) /\ out \in Seq(CpxPackets)
    /\ replies \subseteq [where : 0..2, thr : {0}, tag : Nat]
    /\ Objects(s) /\ InQueue(s, asked, out) /\ AtDevice(s, asked, replies, out)
    /\ Loaded(s, asked) /\ Answered(asked, out) /\ Accounted(s, asked, replies, out)

(* As long as the bridge is asked what it can serve (Served: what makes a  *)
(* reply be read into the wrong object is outside), its lists and what it  *)
(* has told the cores are sound.                                           *)
IobInv ==
    /\ iobAsked \in Seq(IobMenu \cup {Event})
    /\ ~iobSpurious /\ Served =>
          /\ iobTold \in Seq(CpxPackets)
          /\ BridgeSound(Lists, iobAsked, iobReplies, iobTold \o cpx_list)

\* What is assumed of the requests, in the words of these definitions.
LEMMA MenuFacts ==
    /\ IobCpus \subseteq Nat
    /\ IobMenu \subseteq BridgeRequests
    /\ \A m \in IobMenu : m.rq = "imiss" => set_dev(m.region) \notin {1, 2}
    /\ \A t \in IobEvents : t \subseteq IobCpus
  <1>1. IobMenu \subseteq BridgeRequests
    <2>1. {m.line : m \in IobMenu} \subseteq IobLines  BY DEF IobLines
    <2> QED BY <2>1, IobMenuAssumption DEF BridgeRequests, IobRegions
  <1>2. \A m \in IobMenu : m.rq = "imiss" => set_dev(m.region) \notin {1, 2}
    BY IobMenuAssumption DEF set_dev
  <1> QED BY <1>1, <1>2, IobMenuAssumption

\* Sequences, as the steps below read them: what Append, Tail, EXCEPT and
\* \o leave at each place.
LEMMA AppendFacts ==
    ASSUME NEW S, NEW q \in Seq(S), NEW e \in S
    PROVE  /\ Append(q, e) \in Seq(S) /\ Len(q) \in Nat /\ Len(Append(q, e)) = Len(q) + 1
           /\ Append(q, e)[Len(q) + 1] = e
           /\ \A k \in 1..Len(q) : Append(q, e)[k] = q[k] /\ q[k] \in S
           /\ \A k : k \in 1..Len(Append(q, e)) <=> (k \in 1..Len(q) \/ k = Len(q) + 1)
  OBVIOUS

LEMMA ElementFacts ==
    ASSUME NEW S, NEW q \in Seq(S)
    PROVE  Len(q) \in Nat /\ \A k \in 1..Len(q) : q[k] \in S
  OBVIOUS

LEMMA TailFacts ==
    ASSUME NEW S, NEW q \in Seq(S), q # <<>>
    PROVE  /\ Tail(q) \in Seq(S) /\ Len(Tail(q)) = Len(q) - 1 /\ Len(q) \in Nat \ {0}
           /\ Head(q) = q[1] /\ q[1] \in S
           /\ \A k \in 1..Len(Tail(q)) : k + 1 \in 1..Len(q) /\ Tail(q)[k] = q[k + 1]
           /\ \A k \in 1..Len(q) : k # 1 => k - 1 \in 1..Len(Tail(q)) /\ Tail(q)[k - 1] = q[k]
  OBVIOUS

LEMMA PutFacts ==
    ASSUME NEW S, NEW q \in Seq(S), NEW i \in 1..Len(q), NEW e \in S
    PROVE  /\ [q EXCEPT ![i] = e] \in Seq(S) /\ Len([q EXCEPT ![i] = e]) = Len(q) /\ Len(q) \in Nat
           /\ [q EXCEPT ![i] = e][i] = e
           /\ \A k \in 1..Len(q) : k # i => [q EXCEPT ![i] = e][k] = q[k]
  OBVIOUS

\* A list of objects stays one when an object is made.
LEMMA LargerHeap ==
    ASSUME NEW n \in Nat, NEW m \in Nat, n <= m
    PROVE  /\ Seq(1..n) \subseteq Seq(1..m)
  <1>1. 1..n \subseteq 1..m  OBVIOUS
  <1> QED BY <1>1

\* A packet that fits what was asked fits it when more is asked.
LEMMA FitsOn ==
    ASSUME NEW S, NEW asked \in Seq(S), NEW x \in S, NEW p, Fits(asked, p)
    PROVE  Fits(Append(asked, x), p)
  <1>1. \A i \in 1..Len(asked) : Append(asked, x)[i] = asked[i] /\ i \in 1..Len(Append(asked, x))
    BY AppendFacts
  <1> QED BY <1>1 DEF Fits, IsRequest

\* What the bridge could serve, it could serve before the last request.
LEMMA ServedBefore ==
    ASSUME NEW S, iobAsked \in Seq(S), NEW more \in Seq(S),
           iobAsked' = iobAsked \o more, Served'
    PROVE  Served
  <1>1. Len(iobAsked') = Len(iobAsked) + Len(more)
    OBVIOUS
  <1>2. \A i \in 1..Len(iobAsked) : iobAsked'[i] = iobAsked[i] /\ i \in 1..Len(iobAsked')
    BY <1>1
  <1> QED BY <1>2 DEF Served

\* A request or an event takes an object, new or from the heap, into the queue.
LEMMA TakeKeeps ==
    ASSUME NEW s, NEW asked \in Seq(IobMenu \cup {Event}), NEW replies, NEW out,
           BridgeSound(s, asked, replies, out),
           NEW x \in IobMenu \cup {Event}, NEW p \in Packets,
           NEW id, NEW heap,
           \/ s.heap = <<>> /\ id = Len(s.mem) + 1 /\ heap = <<>>
           \/ s.heap # <<>> /\ id = Head(s.heap) /\ heap = Tail(s.heap),
           IF x = Event THEN p.rq = "int" /\ p.tag = 0 /\ ~p.io_wait
           ELSE p = chop_pkt(x, Len(asked) + 1)
    PROVE  BridgeSound([s EXCEPT !.mem = Stored(s.mem, id, p), !.heap = heap,
                          !.pcx = Append(@, id)],
                Append(asked, x), replies, out)
  <1> DEFINE t == [s EXCEPT !.mem = Stored(s.mem, id, p), !.heap = heap,
                            !.pcx = Append(@, id)]
             more == Append(asked, x)
  <1>1. /\ DOMAIN t = ListFields
        /\ t.mem = Stored(s.mem, id, p) /\ t.heap = heap
        /\ t.pcx = Append(s.pcx, id) /\ t.load = s.load /\ t.jload = s.jload
        /\ t.cpx = s.cpx /\ t.dev = s.dev /\ t.dram0 = s.dram0
        /\ t.dram1 = s.dram1 /\ t.data = s.data
    <2>1. DOMAIN s = ListFields  BY DEF BridgeSound, IsLists
    <2> QED BY <2>1 DEF ListFields
  <1> HIDE DEF t, more
  <1>2. /\ s.mem \in Seq(Packets) /\ s.heap \in Seq(1..Len(s.mem))
        /\ s.pcx \in Seq(1..Len(s.mem)) /\ s.cpx \in Seq(CpxPackets)
        /\ s.load \in [0..1 -> Seq(1..Len(s.mem))]
        /\ s.jload \in [0..1 -> Seq(1..Len(s.mem))]
        /\ s.dev \in Seq(UcbPackets) /\ s.dram0 \in Seq(UcbPackets)
        /\ s.dram1 \in Seq(UcbPackets) /\ s.data \in IobLines
    BY DEF BridgeSound, IsLists
  <1>2a. /\ Len(s.mem) \in Nat /\ Len(s.heap) \in Nat
         /\ \A k \in 1..Len(s.pcx) : s.pcx[k] \in 1..Len(s.mem)
    BY <1>2, ElementFacts
  <1>3. /\ id \in 1..(Len(s.mem) + 1) /\ heap \in Seq(1..Len(s.mem))
        /\ id <= Len(s.mem) => s.heap # <<>> /\ id = s.heap[1]
        /\ \A k \in 1..Len(heap) : k + 1 \in 1..Len(s.heap) /\ heap[k] = s.heap[k + 1]
    <2>1. CASE s.heap = <<>>
      <3>1. id = Len(s.mem) + 1 /\ heap = <<>>  BY <2>1
      <3>2. Len(s.mem) \in Nat  BY <1>2
      <3> HIDE <2>1
      <3> QED BY <3>1, <3>2
    <2>2. CASE s.heap # <<>>
      <3>1. s.heap \in Seq(1..Len(s.mem)) /\ Len(s.mem) \in Nat  BY <1>2
      <3>2. heap = Tail(s.heap) /\ id = Head(s.heap)  BY <2>2
      <3>3. /\ heap \in Seq(1..Len(s.mem)) /\ id = s.heap[1] /\ id \in 1..Len(s.mem)
            /\ \A k \in 1..Len(heap) : k + 1 \in 1..Len(s.heap) /\ heap[k] = s.heap[k + 1]
        <4>1. /\ Tail(s.heap) \in Seq(1..Len(s.mem)) /\ Head(s.heap) = s.heap[1]
              /\ s.heap[1] \in 1..Len(s.mem)
              /\ \A k \in 1..Len(Tail(s.heap)) : k + 1 \in 1..Len(s.heap) /\ Tail(s.heap)[k] = s.heap[k + 1]
          BY <2>2, <3>1, TailFacts
        <4> QED BY <4>1, <3>2
      <3>4. id \in 1..(Len(s.mem) + 1)  BY <3>1, <3>3
      <3> QED BY <2>2, <3>3, <3>4
    <2> QED BY <2>1, <2>2
  <1>4. /\ t.mem \in Seq(Packets) /\ Len(t.mem) \in Nat /\ Len(s.mem) <= Len(t.mem)
        /\ id \in 1..Len(t.mem) /\ t.mem[id] = p
        /\ \A j \in 1..Len(s.mem) : j # id => t.mem[j] = s.mem[j]
    <2>1. CASE id > Len(s.mem)
      <3>1. t.mem = Append(s.mem, p)  BY <2>1, <1>1 DEF Stored
      <3>2. s.mem \in Seq(Packets) /\ Len(s.mem) \in Nat  BY SMTT(30), <1>2
      <3>3. id = Len(s.mem) + 1
        <4>1. id \in 1..(Len(s.mem) + 1)  BY <1>3
        <4> QED BY <4>1, <2>1, <3>2
      <3> QED BY <3>1, <3>2, <3>3, AppendFacts
    <2>2. CASE ~(id > Len(s.mem))
      <3>1. t.mem = [s.mem EXCEPT ![id] = p]  BY <2>2, <1>1 DEF Stored
      <3>2. s.mem \in Seq(Packets) /\ Len(s.mem) \in Nat  BY <1>2
      <3>3. id \in 1..Len(s.mem)  BY <2>2, <1>3, <3>2
      <3> QED BY <3>1, <3>2, <3>3, PutFacts
    <2> QED BY <2>1, <2>2
  <1>5. /\ Seq(1..Len(s.mem)) \subseteq Seq(1..Len(t.mem))
    BY <1>2a, <1>4, LargerHeap
  <1>6. /\ Len(t.pcx) = Len(s.pcx) + 1 /\ Len(s.pcx) \in Nat /\ t.pcx[Len(s.pcx) + 1] = id
        /\ t.pcx \in Seq(1..Len(t.mem))
        /\ \A k \in 1..Len(s.pcx) : t.pcx[k] = s.pcx[k] /\ s.pcx[k] \in 1..Len(s.mem)
        /\ \A k : k \in 1..Len(t.pcx) <=> (k \in 1..Len(s.pcx) \/ k = Len(s.pcx) + 1)
    <2>1. s.pcx \in Seq(1..Len(t.mem)) /\ id \in 1..Len(t.mem) /\ t.pcx = Append(s.pcx, id)
      BY <1>1, <1>2, <1>4, <1>5
    <2>2. \A k \in 1..Len(s.pcx) : s.pcx[k] \in 1..Len(s.mem)
      BY <1>2a
    <2>3. /\ Len(t.pcx) = Len(s.pcx) + 1 /\ Len(s.pcx) \in Nat /\ t.pcx[Len(s.pcx) + 1] = id
          /\ t.pcx \in Seq(1..Len(t.mem)) /\ \A k \in 1..Len(s.pcx) : t.pcx[k] = s.pcx[k]
          /\ \A k : k \in 1..Len(t.pcx) <=> (k \in 1..Len(s.pcx) \/ k = Len(s.pcx) + 1)
      BY <2>1, AppendFacts
    <2> QED BY <2>2, <2>3
  <1>7. Objects(s)  BY DEF BridgeSound
  <1>8. /\ \A k \in 1..Len(s.pcx) : s.pcx[k] # id
        /\ \A k \in 1..Len(heap) : heap[k] # id
    <2>1. CASE id <= Len(s.mem)
      <3>1. s.heap # <<>> /\ id = s.heap[1] /\ 1 \in 1..Len(s.heap)
        BY <2>1, <1>3, <1>2
      <3> QED BY <3>1, <1>3, <1>7 DEF Objects
    <2>2. CASE ~(id <= Len(s.mem))
      <3>1. \A k \in 1..Len(heap) : heap[k] \in 1..Len(s.mem)  BY SMTT(30), <1>3
      <3> QED BY SMTT(30), <2>2, <1>6, <3>1
    <2> QED BY <2>1, <2>2
  <1> USE DEF more
  <1>9. /\ Len(more) = Len(asked) + 1 /\ Len(asked) \in Nat /\ more[Len(asked) + 1] = x
        /\ \A i \in 1..Len(asked) : more[i] = asked[i] /\ i \in 1..Len(more)
    BY AppendFacts
  <1>10. \A q : Fits(asked, q) => Fits(more, q)
    BY FitsOn
  <1> HIDE DEF more
  <1>11. /\ p.tag = IF x = Event THEN 0 ELSE Len(asked) + 1
         /\ x # Event => Fits(more, p)
    <2>1. CASE x = Event
      BY <2>1
    <2>2. CASE x # Event
      <3>1. x \in BridgeRequests  BY <2>2, MenuFacts
      <3>2. /\ p.cpu = x.cpu /\ p.thr = x.thr /\ p.rq = x.rq /\ p.region = x.region
            /\ p.line = x.line /\ p.target = x.target /\ p.tag = Len(asked) + 1
            /\ p.io_wait <=> IoLoad(x)
        <4>1. p = chop_pkt(x, Len(asked) + 1)  BY <2>2
        <4>2. p.io_wait = (set_dev(x.region) \in {1, 2} /\ x.rq = "load")
          BY <4>1 DEF chop_pkt
        <4> QED BY <4>1, <4>2 DEF chop_pkt, IoLoad
      <3> QED BY <2>2, <3>1, <3>2, <1>9 DEF Fits, IsRequest, BridgeRequests
    <2> QED BY <2>1, <2>2
  <1>12. Fits(more, p)
    BY <1>11 DEF Fits
  <1>13. \A i : Queued(t, i) <=> (Queued(s, i) \/ i = p.tag)
    <2> SUFFICES ASSUME NEW i PROVE Queued(t, i) <=> (Queued(s, i) \/ i = p.tag)
      OBVIOUS
    <2>1. \A k \in 1..Len(s.pcx) : t.mem[t.pcx[k]] = s.mem[s.pcx[k]]
      BY <1>4, <1>6, <1>8
    <2>2. t.mem[t.pcx[Len(s.pcx) + 1]] = p
      BY <1>4, <1>6
    <2>3. \A k : k \in 1..Len(t.pcx) <=> (k \in 1..Len(s.pcx) \/ k = Len(s.pcx) + 1)
      BY <1>6
    <2> QED BY <2>1, <2>2, <2>3 DEF Queued
  <1>14. \A w : Sending(t, w) = Sending(s, w) /\ Loading(t, w) = Loading(s, w)
    BY <1>1 DEF Sending, Loading
  <1>15. \A w \in 0..2 : Loading(s, w) \in Seq(1..Len(s.mem))
    BY <1>2 DEF Loading
  <1>16. ASSUME NEW w \in 0..2, NEW i, Expected(s, asked, out, w, i)
         PROVE  Expected(t, more, out, w, i)
    <2> DEFINE j == Loading(s, w)[1]
    <2>1. /\ IsRequest(asked, i) /\ ~Queued(s, i) /\ ~Acked(out, i)
          /\ IoLoad(asked[i]) /\ PortOf(asked[i].region) = w /\ Loading(s, w) # <<>>
          /\ \A k \in 1..Len(s.pcx) : s.pcx[k] # j
          /\ \A k \in 1..Len(s.heap) : s.heap[k] # j
          /\ s.mem[j].tag = i /\ Fits(asked, s.mem[j])
      BY <1>16 DEF Expected
    <2>2. j \in 1..Len(s.mem)
      BY SMTT(30), <2>1, <1>15
    <2>3. j # id
      <3>1. CASE id <= Len(s.mem)
        <4>1. id = s.heap[1] /\ 1 \in 1..Len(s.heap)  BY <3>1, <1>3, <1>2
        <4> QED BY <4>1, <2>1
      <3>2. CASE ~(id <= Len(s.mem))
        BY <3>2, <2>2
      <3> QED BY <3>1, <3>2
    <2>4. t.mem[j] = s.mem[j]
      BY <2>2, <2>3, <1>4
    <2>5. i \in 1..Len(asked) /\ IsRequest(more, i) /\ more[i] = asked[i] /\ ~Queued(t, i)
      BY <2>1, <1>9, <1>11, <1>13 DEF IsRequest
    <2>6. \A k \in 1..Len(t.pcx) : t.pcx[k] # j
      <3>1. \A k \in 1..Len(t.pcx) : t.pcx[k] = id \/ (k \in 1..Len(s.pcx) /\ t.pcx[k] = s.pcx[k])
        <4>1. /\ \A k : k \in 1..Len(t.pcx) <=> (k \in 1..Len(s.pcx) \/ k = Len(s.pcx) + 1)
              /\ \A k \in 1..Len(s.pcx) : t.pcx[k] = s.pcx[k]
              /\ t.pcx[Len(s.pcx) + 1] = id
          BY <1>6
        <4> QED BY <4>1
      <3> QED BY <2>1, <2>3, <3>1
    <2>7. \A k \in 1..Len(heap) : heap[k] # j
      BY <2>1, <1>3
    <2> QED BY <2>1, <2>4, <2>5, <2>6, <2>7, <1>1, <1>10, <1>14 DEF Expected
  <1>17. IsLists(t)
    <2>1. heap \in Seq(1..Len(t.mem)) /\ t.load \in [0..1 -> Seq(1..Len(t.mem))]
          /\ t.jload \in [0..1 -> Seq(1..Len(t.mem))]
      BY <1>1, <1>2, <1>3, <1>5
    <2> QED BY <2>1, <1>1, <1>2, <1>4, <1>6 DEF IsLists
  <1>18. Objects(t)
    <2>1. \A k \in 1..Len(t.pcx) : IF k = Len(s.pcx) + 1 THEN t.pcx[k] = id
                                   ELSE k \in 1..Len(s.pcx) /\ t.pcx[k] = s.pcx[k]
      BY <1>6
    <2>2. /\ \A j, k \in 1..Len(s.pcx) : s.pcx[j] = s.pcx[k] => j = k
          /\ \A j, k \in 1..Len(s.heap) : s.heap[j] = s.heap[k] => j = k
          /\ \A j \in 1..Len(s.pcx), k \in 1..Len(s.heap) : s.pcx[j] # s.heap[k]
      BY <1>7 DEF Objects
    <2>3. \A j, k \in 1..Len(t.pcx) : t.pcx[j] = t.pcx[k] => j = k
      <3> SUFFICES ASSUME NEW j \in 1..Len(t.pcx), NEW k \in 1..Len(t.pcx), t.pcx[j] = t.pcx[k]
                   PROVE  j = k
        OBVIOUS
      <3>1. CASE j = Len(s.pcx) + 1
        BY <3>1, <2>1, <1>8
      <3>2. CASE k = Len(s.pcx) + 1
        BY <3>2, <2>1, <1>8
      <3>3. CASE j # Len(s.pcx) + 1 /\ k # Len(s.pcx) + 1
        BY <3>3, <2>1, <2>2
      <3> QED BY <3>1, <3>2, <3>3
    <2>4. \A j, k \in 1..Len(heap) : heap[j] = heap[k] => j = k
      BY <2>2, <1>3
    <2>5. \A j \in 1..Len(t.pcx), k \in 1..Len(heap) : t.pcx[j] # heap[k]
      <3>1. \A j \in 1..Len(s.pcx), k \in 1..Len(heap) : s.pcx[j] # heap[k]
        <4>1. \A k \in 1..Len(heap) : k + 1 \in 1..Len(s.heap) /\ heap[k] = s.heap[k + 1]
          BY <1>3
        <4> SUFFICES ASSUME NEW j \in 1..Len(s.pcx), NEW k \in 1..Len(heap)
                     PROVE  s.pcx[j] # heap[k]
          OBVIOUS
        <4>2. k + 1 \in 1..Len(s.heap) /\ heap[k] = s.heap[k + 1]
          BY <4>1
        <4>3. s.pcx[j] # s.heap[k + 1]
          BY <4>2, <2>2
        <4> QED BY <4>2, <4>3
      <3> QED BY <2>1, <3>1, <1>8
    <2> QED BY <2>3, <2>4, <2>5, <1>1 DEF Objects
  <1>19. InQueue(t, more, out)
    <2>1. \A k \in 1..Len(t.pcx) :
             IF k = Len(s.pcx) + 1 THEN t.mem[t.pcx[k]] = p
             ELSE k \in 1..Len(s.pcx) /\ t.mem[t.pcx[k]] = s.mem[s.pcx[k]]
      <3>1. \A k \in 1..Len(s.pcx) : t.mem[t.pcx[k]] = s.mem[s.pcx[k]]
        BY <1>4, <1>6, <1>8
      <3>2. t.mem[t.pcx[Len(s.pcx) + 1]] = p
        BY <1>4, <1>6
      <3>3. \A k : k \in 1..Len(t.pcx) <=> (k \in 1..Len(s.pcx) \/ k = Len(s.pcx) + 1)
        BY <1>6
      <3> QED BY <3>1, <3>2, <3>3
    <2>2. InQueue(s, asked, out) /\ Answered(asked, out)  BY DEF BridgeSound
    <2>3. p.tag > 0 => ~Acked(out, p.tag)
      BY <2>2, <1>11, <1>9 DEF Acked, Answered, IsRequest
    <2>4. \A k \in 1..Len(s.pcx) : s.mem[s.pcx[k]].tag > 0 => s.mem[s.pcx[k]].tag # p.tag
      <3> SUFFICES ASSUME NEW k \in 1..Len(s.pcx), s.mem[s.pcx[k]].tag > 0
                   PROVE  s.mem[s.pcx[k]].tag # p.tag
        OBVIOUS
      <3>1. Fits(asked, s.mem[s.pcx[k]])  BY <2>2 DEF InQueue
      <3>2. s.mem[s.pcx[k]].tag \in 1..Len(asked)
        BY SMTT(30), <3>1 DEF Fits, IsRequest
      <3> QED BY <3>2, <1>11, <1>9
    <2>5. \A k \in 1..Len(t.pcx) :
             Fits(more, t.mem[t.pcx[k]]) /\ (t.mem[t.pcx[k]].tag > 0 => ~Acked(out, t.mem[t.pcx[k]].tag))
      BY <2>1, <2>2, <2>3, <1>10, <1>12 DEF InQueue
    <2>6. \A j, k \in 1..Len(t.pcx) :
             t.mem[t.pcx[j]].tag = t.mem[t.pcx[k]].tag /\ t.mem[t.pcx[j]].tag > 0 => j = k
      BY ZenonT(40), <2>1, <2>2, <2>4 DEF InQueue
    <2> QED BY <2>5, <2>6 DEF InQueue
  <1>20. \A w, k : Live(t, w, k) <=> Live(s, w, k)
    BY <1>14 DEF Live
  <1>21. AtDevice(t, more, replies, out)
    <2>1. AtDevice(s, asked, replies, out) /\ \A r \in replies : r.where \in 0..2
      BY DEF BridgeSound
    <2> QED BY <2>1, <1>14, <1>16, <1>20 DEF AtDevice
  <1>22. Loaded(t, more)
    <2> SUFFICES ASSUME NEW w \in 0..2, Loading(t, w) # <<>>
                 PROVE  \E i \in 1..Len(more) :
                          /\ IoLoad(more[i]) /\ ~Queued(t, i)
                          /\ set_dev(more[i].region) = IF w = 2 THEN 2 ELSE 1
      BY DEF Loaded
    <2>1. PICK i \in 1..Len(asked) :
             /\ IoLoad(asked[i]) /\ ~Queued(s, i)
             /\ set_dev(asked[i].region) = IF w = 2 THEN 2 ELSE 1
      BY <1>14 DEF BridgeSound, Loaded
    <2>2. more[i] = asked[i] /\ i \in 1..Len(more) /\ ~Queued(t, i)
      BY <2>1, <1>9, <1>11, <1>13
    <2> QED BY <2>1, <2>2
  <1>23. Answered(more, out)
    <2>1. Answered(asked, out)  BY DEF BridgeSound
    <2>2. \A i : IsRequest(asked, i) => IsRequest(more, i) /\ more[i] = asked[i]
      BY <1>9 DEF IsRequest
    <2> QED BY <2>1, <2>2 DEF Answered
  <1>24. Accounted(t, more, replies, out)
    <2>1. Accounted(s, asked, replies, out)  BY DEF BridgeSound
    <2>2. \A i : Open(t, replies, i) <=> Open(s, replies, i)
      BY <1>14, <1>20 DEF Open
    <2>3. \A i \in 1..Len(more) : IF i = Len(asked) + 1 THEN more[i] = x
                                  ELSE i \in 1..Len(asked) /\ more[i] = asked[i]
      BY <1>9
    <2>4. x # Event => Queued(t, Len(asked) + 1)
      BY <1>11, <1>13
    <2> QED BY <2>1, <2>2, <2>3, <2>4, <1>13 DEF Accounted
  <1>25. out \in Seq(CpxPackets) /\ replies \subseteq [where : 0..2, thr : {0}, tag : Nat]
    BY DEF BridgeSound
  <1> QED BY <1>17, <1>18, <1>19, <1>21, <1>22, <1>23, <1>24, <1>25 DEF BridgeSound, t, more

(* The head of the queue leaves it.                                        *)
Dequeued(s, t, asked, out, id, p) ==
    /\ id \in 1..Len(s.mem) /\ p \in Packets /\ Fits(asked, p)
    /\ p.tag > 0 => Queued(s, p.tag) /\ ~Acked(out, p.tag)
    /\ \A k \in 1..Len(t.pcx) : k + 1 \in 1..Len(s.pcx) /\ t.pcx[k] = s.pcx[k + 1]
    /\ \A k \in 1..Len(t.pcx) : t.pcx[k] # id
    /\ \A k \in 1..Len(s.heap) : s.heap[k] # id
    /\ \A i : i > 0 => (Queued(t, i) <=> Queued(s, i) /\ i # p.tag)
    /\ t.pcx \in Seq(1..Len(s.mem))
    /\ \A j, k \in 1..Len(t.pcx) : t.pcx[j] = t.pcx[k] => j = k
    /\ \A j \in 1..Len(t.pcx), k \in 1..Len(s.heap) : t.pcx[j] # s.heap[k]

\* What is true of the head of pcx_list, and of the list without it.
LEMMA DequeueFacts ==
    ASSUME NEW s, NEW asked, NEW out, IsLists(s), Objects(s), InQueue(s, asked, out),
           s.pcx # <<>>, NEW t, t.mem = s.mem, t.pcx = Tail(s.pcx),
           NEW id, id = s.pcx[1], NEW p, p = s.mem[id]
    PROVE  Dequeued(s, t, asked, out, id, p)
  <1>1. s.pcx \in Seq(1..Len(s.mem)) /\ s.mem \in Seq(Packets) /\ Len(s.mem) \in Nat
    BY ElementFacts DEF IsLists
  <1>2. /\ Tail(s.pcx) \in Seq(1..Len(s.mem)) /\ Len(s.pcx) \in Nat \ {0} /\ id \in 1..Len(s.mem)
        /\ \A k \in 1..Len(t.pcx) : k + 1 \in 1..Len(s.pcx) /\ t.pcx[k] = s.pcx[k + 1]
        /\ \A k \in 1..Len(s.pcx) : k # 1 => k - 1 \in 1..Len(t.pcx) /\ t.pcx[k - 1] = s.pcx[k]
    <2>1. s.pcx \in Seq(1..Len(s.mem))  BY <1>1
    <2>2. /\ Tail(s.pcx) \in Seq(1..Len(s.mem)) /\ Len(s.pcx) \in Nat \ {0} /\ id \in 1..Len(s.mem)
          /\ \A k \in 1..Len(Tail(s.pcx)) : k + 1 \in 1..Len(s.pcx) /\ Tail(s.pcx)[k] = s.pcx[k + 1]
          /\ \A k \in 1..Len(s.pcx) : k # 1 =>
                k - 1 \in 1..Len(Tail(s.pcx)) /\ Tail(s.pcx)[k - 1] = s.pcx[k]
      BY <2>1, TailFacts
    <2> QED BY <2>2
  <1>3. 1 \in 1..Len(s.pcx)
    BY <1>2
  <1>4. p \in Packets /\ \A k \in 1..Len(t.pcx) : k \in Nat
    <2>1. \A k \in 1..Len(s.mem) : s.mem[k] \in Packets  BY <1>1, ElementFacts
    <2>2. Len(t.pcx) \in Nat  BY <1>2, ElementFacts
    <2>3. p \in Packets
      <3>1. id \in 1..Len(s.mem)  BY <1>2
      <3> QED BY <2>1, <3>1
    <2>4. \A k \in 1..Len(t.pcx) : k \in Nat  BY <2>2
    <2> QED BY <2>3, <2>4
  <1>5. /\ \A j, k \in 1..Len(s.pcx) : s.pcx[j] = s.pcx[k] => j = k
        /\ \A j \in 1..Len(s.pcx), k \in 1..Len(s.heap) : s.pcx[j] # s.heap[k]
    BY DEF Objects
  <1>6. /\ \A k \in 1..Len(s.pcx) :
             /\ Fits(asked, s.mem[s.pcx[k]])
             /\ s.mem[s.pcx[k]].tag > 0 => ~Acked(out, s.mem[s.pcx[k]].tag)
        /\ \A j, k \in 1..Len(s.pcx) :
             s.mem[s.pcx[j]].tag = s.mem[s.pcx[k]].tag /\ s.mem[s.pcx[j]].tag > 0 => j = k
    BY DEF InQueue
  <1>7. Fits(asked, p) /\ (p.tag > 0 => Queued(s, p.tag) /\ ~Acked(out, p.tag))
    BY <1>3, <1>6 DEF Queued
  <1>8. \A k \in 1..Len(t.pcx) : t.pcx[k] # id
    <2> SUFFICES ASSUME NEW k \in 1..Len(t.pcx), t.pcx[k] = id PROVE FALSE
      OBVIOUS
    <2>1. k \in Nat /\ k + 1 \in 1..Len(s.pcx) /\ s.pcx[k + 1] = s.pcx[1]  BY <1>2, <1>4
    <2>2. k + 1 = 1  BY <2>1, <1>3, <1>5
    <2> QED BY <2>1, <2>2
  <1>9. \A k \in 1..Len(s.heap) : s.heap[k] # id
    BY <1>3, <1>5
  <1>10. ASSUME NEW i, i > 0
         PROVE  Queued(t, i) <=> Queued(s, i) /\ i # p.tag
    <2>1. ASSUME Queued(t, i) PROVE Queued(s, i) /\ i # p.tag
      <3>1. PICK k \in 1..Len(t.pcx) : s.mem[t.pcx[k]].tag = i  BY <2>1 DEF Queued
      <3>2. k + 1 \in 1..Len(s.pcx) /\ s.mem[s.pcx[k + 1]].tag = i /\ k + 1 # 1
        BY <3>1, <1>2, <1>4
      <3>3. i # p.tag
        BY <3>2, <1>3, <1>6, <1>10
      <3> QED BY <3>2, <3>3 DEF Queued
    <2>2. ASSUME Queued(s, i), i # p.tag PROVE Queued(t, i)
      <3>1. PICK k \in 1..Len(s.pcx) : s.mem[s.pcx[k]].tag = i  BY <2>2 DEF Queued
      <3>2. k # 1  BY <3>1, <2>2
      <3> QED BY <3>1, <3>2, <1>2 DEF Queued
    <2> QED BY <2>1, <2>2
  <1>11. \A j, k \in 1..Len(t.pcx) : t.pcx[j] = t.pcx[k] => j = k
    <2> SUFFICES ASSUME NEW j \in 1..Len(t.pcx), NEW k \in 1..Len(t.pcx), t.pcx[j] = t.pcx[k]
                 PROVE  j = k
      OBVIOUS
    <2>1. j + 1 = k + 1  BY <1>2, <1>5
    <2> QED BY <2>1, <1>4
  <1>12. \A j \in 1..Len(t.pcx), k \in 1..Len(s.heap) : t.pcx[j] # s.heap[k]
    BY <1>2, <1>5
  <1> QED BY <1>2, <1>4, <1>7, <1>8, <1>9, <1>10, <1>11, <1>12 DEF Dequeued

(* What stays in the queue still is as the invariant asks.                 *)
LEMMA DequeueQueue ==
    ASSUME NEW s, NEW asked, NEW out, NEW out2, InQueue(s, asked, out), NEW t, t.mem = s.mem,
           \A k \in 1..Len(t.pcx) : k \in Nat /\ k + 1 \in 1..Len(s.pcx) /\ t.pcx[k] = s.pcx[k + 1],
           \A k \in 1..Len(t.pcx) : LET i == s.mem[t.pcx[k]].tag IN
              i > 0 /\ ~Acked(out, i) => ~Acked(out2, i)
    PROVE  InQueue(t, asked, out2)
  <1>1. /\ \A k \in 1..Len(s.pcx) :
             /\ Fits(asked, s.mem[s.pcx[k]])
             /\ s.mem[s.pcx[k]].tag > 0 => ~Acked(out, s.mem[s.pcx[k]].tag)
        /\ \A j, k \in 1..Len(s.pcx) :
             s.mem[s.pcx[j]].tag = s.mem[s.pcx[k]].tag /\ s.mem[s.pcx[j]].tag > 0 => j = k
    BY DEF InQueue
  <1>2. \A k \in 1..Len(t.pcx) :
           Fits(asked, t.mem[t.pcx[k]]) /\ (t.mem[t.pcx[k]].tag > 0 => ~Acked(out2, t.mem[t.pcx[k]].tag))
    BY <1>1
  <1>3. ASSUME NEW j \in 1..Len(t.pcx), NEW k \in 1..Len(t.pcx),
               t.mem[t.pcx[j]].tag = t.mem[t.pcx[k]].tag, t.mem[t.pcx[j]].tag > 0
        PROVE  j = k
    <2>1. j + 1 = k + 1  BY <1>1, <1>3
    <2> QED BY <2>1
  <1> QED BY <1>2, <1>3 DEF InQueue

(* A packet that waits for no device leaves the queue and is answered.     *)
AnswerStep(s, t, asked, out, out2) ==
    /\ s.pcx # <<>> /\ out2 \in Seq(CpxPackets)
    /\ DOMAIN t = ListFields /\ t.mem = s.mem /\ t.pcx = Tail(s.pcx)
    /\ t.heap = Append(s.heap, s.pcx[1]) /\ t.load = s.load /\ t.jload = s.jload
    /\ t.cpx \in Seq(CpxPackets) /\ t.data \in IobLines
    /\ t.dev \in Seq(UcbPackets) /\ t.dram0 \in Seq(UcbPackets) /\ t.dram1 \in Seq(UcbPackets)
    /\ \A w \in 0..2 : \A k : Live(t, w, k) <=> Live(s, w, k)
    /\ \A w \in 0..2 : \A k : Live(s, w, k) => Sending(t, w)[k].tag = Sending(s, w)[k].tag
    /\ Len(out) + 1 <= Len(out2) /\ \A k \in 1..Len(out) : out2[k] = out[k]
    /\ \A k \in 1..Len(out2) : k > Len(out) + 1 => out2[k].rq = "int_ret"
    /\ LET p == s.mem[s.pcx[1]]  n == Len(out) + 1 IN
       IF p.rq = "int" THEN out2[n].rq = "int_ret"
       ELSE /\ out2[n].tag = p.tag /\ out2[n].rq # "int_ret" /\ p.tag > 0
            /\ Matches(asked[p.tag], out2[n])
            /\ p.region = "intr" =>
                  \E k \in 1..Len(out2) : /\ out2[k].tag = p.tag /\ out2[k].rq = "int_ret"
                                          /\ out2[k].cpu = p.target

\* handle_pcx on a packet that waits for no device: answered in the same call.
LEMMA AnswerKeeps ==
    ASSUME NEW s, NEW asked, NEW replies, NEW out, BridgeSound(s, asked, replies, out),
           NEW t, NEW out2, AnswerStep(s, t, asked, out, out2)
    PROVE  BridgeSound(t, asked, replies, out2)
  <1> DEFINE id == s.pcx[1]
             p == s.mem[id]
             n == Len(out) + 1
  <1>0. /\ s.pcx # <<>> /\ out2 \in Seq(CpxPackets)
        /\ DOMAIN t = ListFields /\ t.mem = s.mem /\ t.pcx = Tail(s.pcx)
        /\ t.heap = Append(s.heap, s.pcx[1]) /\ t.load = s.load /\ t.jload = s.jload
        /\ t.cpx \in Seq(CpxPackets) /\ t.data \in IobLines
        /\ t.dev \in Seq(UcbPackets) /\ t.dram0 \in Seq(UcbPackets) /\ t.dram1 \in Seq(UcbPackets)
        /\ \A w \in 0..2 : \A k : Live(t, w, k) <=> Live(s, w, k)
        /\ \A w \in 0..2 : \A k : Live(s, w, k) => Sending(t, w)[k].tag = Sending(s, w)[k].tag
        /\ n <= Len(out2) /\ \A k \in 1..Len(out) : out2[k] = out[k]
        /\ \A k \in 1..Len(out2) : k > n => out2[k].rq = "int_ret"
        /\ IF p.rq = "int" THEN out2[n].rq = "int_ret"
           ELSE /\ out2[n].tag = p.tag /\ out2[n].rq # "int_ret" /\ p.tag > 0
                /\ Matches(asked[p.tag], out2[n])
                /\ p.region = "intr" =>
                      \E k \in 1..Len(out2) : /\ out2[k].tag = p.tag /\ out2[k].rq = "int_ret"
                                              /\ out2[k].cpu = p.target
    BY DEF AnswerStep
  <1>1. /\ IsLists(s) /\ out \in Seq(CpxPackets) /\ Objects(s) /\ InQueue(s, asked, out)
        /\ AtDevice(s, asked, replies, out) /\ Loaded(s, asked) /\ Answered(asked, out)
        /\ Accounted(s, asked, replies, out)
        /\ replies \subseteq [where : 0..2, thr : {0}, tag : Nat]
    BY DEF BridgeSound
  <1>2. /\ id \in 1..Len(s.mem) /\ p \in Packets /\ Fits(asked, p)
        /\ p.tag > 0 => Queued(s, p.tag) /\ ~Acked(out, p.tag)
        /\ \A k \in 1..Len(t.pcx) : k + 1 \in 1..Len(s.pcx) /\ t.pcx[k] = s.pcx[k + 1]
        /\ \A k \in 1..Len(t.pcx) : t.pcx[k] # id
        /\ \A k \in 1..Len(s.heap) : s.heap[k] # id
        /\ \A i : i > 0 => (Queued(t, i) <=> Queued(s, i) /\ i # p.tag)
        /\ t.pcx \in Seq(1..Len(s.mem))
        /\ \A j, k \in 1..Len(t.pcx) : t.pcx[j] = t.pcx[k] => j = k
        /\ \A j \in 1..Len(t.pcx), k \in 1..Len(s.heap) : t.pcx[j] # s.heap[k]
    <2>1. Dequeued(s, t, asked, out, id, p)  BY <1>0, <1>1, DequeueFacts
    <2> QED BY <1>0, <2>1 DEF Dequeued
  <1>3. s.heap \in Seq(1..Len(s.mem))
    BY <1>0, <1>1 DEF IsLists
  <1>4. /\ t.heap \in Seq(1..Len(s.mem)) /\ Len(s.heap) \in Nat /\ t.heap[Len(s.heap) + 1] = id
        /\ \A k \in 1..Len(s.heap) : t.heap[k] = s.heap[k]
        /\ \A k : k \in 1..Len(t.heap) <=> (k \in 1..Len(s.heap) \/ k = Len(s.heap) + 1)
    BY SMTT(30), <1>0, <1>2, <1>3, AppendFacts
  <1>5. n \in 1..Len(out2) /\ Len(out) \in Nat /\ Len(out2) \in Nat
        /\ \A k \in 1..Len(out) : k \in 1..Len(out2)
    <2>1. Len(out) \in Nat /\ Len(out2) \in Nat  BY <1>0, <1>1, ElementFacts
    <2> QED BY <1>0, <2>1
  <1>6. /\ \A k \in 1..Len(out) : out2[k] = out[k]
        /\ \A k \in 1..Len(out2) : out2[k].rq # "int_ret" =>
              \/ k \in 1..Len(out)
              \/ k = n /\ p.rq # "int" /\ out2[k].tag = p.tag /\ p.tag > 0 /\ Matches(asked[p.tag], out2[k])
    <2>1. ASSUME NEW k \in 1..Len(out2), k \notin 1..Len(out), out2[k].rq # "int_ret"
          PROVE  k = n
      <3>1. k \in Nat /\ k > Len(out) /\ ~(k > Len(out) + 1)  BY <1>0, <2>1, <1>5
      <3> QED BY <1>0, <3>1, <1>5
    <2> QED BY <1>0, <2>1
  <1>7. p.rq # "int" => /\ out2[n].tag = p.tag /\ out2[n].rq # "int_ret" /\ p.tag > 0
                        /\ IsRequest(asked, p.tag) /\ p.region = asked[p.tag].region
                        /\ p.target = asked[p.tag].target
    BY <1>0, <1>2 DEF Fits
  <1>8. p.rq = "int" => p.tag = 0
    BY <1>0, <1>2 DEF Fits
  <1> HIDE DEF n, p, id
  <1>9. \A i : i > 0 => (Acked(out2, i) <=> Acked(out, i) \/ (p.rq # "int" /\ i = p.tag))
    BY SMTT(30), <1>0, <1>5, <1>6, <1>7 DEF Acked
  <1>10. \A w : Loading(t, w) = Loading(s, w)
    BY <1>0 DEF Loading
  <1>11. ASSUME NEW w \in 0..2, NEW i, Expected(s, asked, out, w, i)
         PROVE  Expected(t, asked, out2, w, i)
    <2> DEFINE j == Loading(s, w)[1]
    <2>1. /\ IsRequest(asked, i) /\ ~Queued(s, i) /\ ~Acked(out, i)
          /\ IoLoad(asked[i]) /\ PortOf(asked[i].region) = w /\ Loading(s, w) # <<>>
          /\ \A k \in 1..Len(s.pcx) : s.pcx[k] # j
          /\ \A k \in 1..Len(s.heap) : s.heap[k] # j
          /\ s.mem[j].tag = i /\ Fits(asked, s.mem[j])
      BY <1>0, <1>11 DEF Expected
    <2>2. i > 0  BY <1>0, <2>1 DEF IsRequest
    <2>3. i # p.tag  BY <1>0, <2>1, <2>2, <1>2
    <2>4. j # id
      <3>1. p.tag # s.mem[j].tag  BY <1>0, <2>1, <2>3
      <3> QED BY <1>0, <3>1 DEF p
    <2>5. \A k \in 1..Len(t.heap) : t.heap[k] # j
      BY <1>0, <2>1, <2>4, <1>4
    <2>6. \A k \in 1..Len(t.pcx) : t.pcx[k] # j
      BY <1>0, <2>1, <1>2
    <2>7. ~Queued(t, i) /\ ~Acked(out2, i)
      BY <1>0, <2>1, <2>2, <2>3, <1>2, <1>9
    <2> QED BY <1>0, <2>1, <2>5, <2>6, <2>7, <1>10 DEF Expected
  <1>12. IsLists(t)
    BY <1>0, <1>1, <1>2, <1>4 DEF IsLists
  <1>13. Objects(t)
    <2>1. \A j, k \in 1..Len(s.heap) : s.heap[j] = s.heap[k] => j = k
      BY <1>0, <1>1 DEF Objects
    <2>2. \A j, k \in 1..Len(t.heap) : t.heap[j] = t.heap[k] => j = k
      <3> SUFFICES ASSUME NEW j \in 1..Len(t.heap), NEW k \in 1..Len(t.heap), t.heap[j] = t.heap[k]
                   PROVE  j = k
        OBVIOUS
      <3>1. CASE j = Len(s.heap) + 1
        BY <1>0, <3>1, <1>4, <1>2
      <3>2. CASE k = Len(s.heap) + 1
        BY <1>0, <3>2, <1>4, <1>2
      <3>3. CASE j # Len(s.heap) + 1 /\ k # Len(s.heap) + 1
        <4>1. j \in 1..Len(s.heap) /\ k \in 1..Len(s.heap)  BY <1>0, <3>3, <1>4
        <4>2. s.heap[j] = s.heap[k]  BY <1>0, <4>1, <1>4
        <4> QED BY <1>0, <4>1, <4>2, <2>1
      <3> QED BY <1>0, <3>1, <3>2, <3>3
    <2>3. \A j \in 1..Len(t.pcx), k \in 1..Len(t.heap) : t.pcx[j] # t.heap[k]
      <3> SUFFICES ASSUME NEW j \in 1..Len(t.pcx), NEW k \in 1..Len(t.heap)
                   PROVE  t.pcx[j] # t.heap[k]
        OBVIOUS
      <3>1. CASE k = Len(s.heap) + 1
        BY <1>0, <3>1, <1>2, <1>4
      <3>2. CASE k # Len(s.heap) + 1
        <4>1. k \in 1..Len(s.heap) /\ t.heap[k] = s.heap[k]  BY <1>0, <3>2, <1>4
        <4> QED BY <1>0, <4>1, <1>2
      <3> QED BY <1>0, <3>1, <3>2
    <2> QED BY <1>0, <2>2, <2>3, <1>2 DEF Objects
  <1>14. InQueue(t, asked, out2)
    <2>1. Len(t.pcx) \in Nat  BY <1>0, <1>2, ElementFacts
    <2>2. \A k \in 1..Len(t.pcx) : s.mem[t.pcx[k]].tag > 0 => s.mem[t.pcx[k]].tag # p.tag
      <3> SUFFICES ASSUME NEW k \in 1..Len(t.pcx), s.mem[t.pcx[k]].tag > 0
                   PROVE  s.mem[t.pcx[k]].tag # p.tag
        OBVIOUS
      <3>1. Queued(t, s.mem[t.pcx[k]].tag)  BY <1>0 DEF Queued
      <3> QED BY <1>0, <3>1, <1>2
    <2>3. \A k \in 1..Len(t.pcx) : LET i == s.mem[t.pcx[k]].tag IN
              i > 0 /\ ~Acked(out, i) => ~Acked(out2, i)
      BY <1>0, <2>2, <1>9
    <2>4. \A k \in 1..Len(t.pcx) : k \in Nat /\ k + 1 \in 1..Len(s.pcx) /\ t.pcx[k] = s.pcx[k + 1]
      BY <1>0, <2>1, <1>2
    <2> QED BY <1>0, <2>3, <2>4, <1>1, DequeueQueue
  <1>15. AtDevice(t, asked, replies, out2)
    <2>1. ASSUME NEW w \in 0..2, NEW k \in 1..Len(Sending(t, w)), Live(t, w, k)
          PROVE  /\ Expected(t, asked, out2, w, Sending(t, w)[k].tag)
                 /\ \A l \in 1..Len(Sending(t, w)) :
                       Live(t, w, l) /\ Sending(t, w)[l].tag = Sending(t, w)[k].tag => l = k
                 /\ \A r \in replies : r.tag # Sending(t, w)[k].tag
      <3>1. Live(s, w, k) /\ k \in 1..Len(Sending(s, w)) /\ Sending(t, w)[k].tag = Sending(s, w)[k].tag
        BY <1>0, <2>1 DEF Live
      <3>2. \A l : Live(t, w, l) => Live(s, w, l) /\ l \in 1..Len(Sending(s, w)) /\ Sending(t, w)[l].tag = Sending(s, w)[l].tag
        BY <1>0 DEF Live
      <3>3. /\ Expected(s, asked, out, w, Sending(s, w)[k].tag)
            /\ \A l \in 1..Len(Sending(s, w)) :
                  Live(s, w, l) /\ Sending(s, w)[l].tag = Sending(s, w)[k].tag => l = k
            /\ \A r \in replies : r.tag # Sending(s, w)[k].tag
        BY <1>0, <3>1, <1>1 DEF AtDevice
      <3> QED BY <1>0, <3>1, <3>2, <3>3, <1>11
    <2>2. \A r \in replies : Expected(t, asked, out2, r.where, r.tag)
      BY <1>0, <1>1, <1>11 DEF AtDevice
    <2> QED BY <1>0, <2>1, <2>2 DEF AtDevice
  <1>16. Loaded(t, asked)
    <2> SUFFICES ASSUME NEW w \in 0..2, Loading(t, w) # <<>>
                 PROVE  \E i \in 1..Len(asked) :
                          /\ IoLoad(asked[i]) /\ ~Queued(t, i)
                          /\ set_dev(asked[i].region) = IF w = 2 THEN 2 ELSE 1
      BY DEF Loaded
    <2>1. PICK i \in 1..Len(asked) :
             /\ IoLoad(asked[i]) /\ ~Queued(s, i)
             /\ set_dev(asked[i].region) = IF w = 2 THEN 2 ELSE 1
      BY <1>0, <1>1, <1>10 DEF Loaded
    <2>2. i > 0  OBVIOUS
    <2> QED BY <1>0, <2>1, <2>2, <1>2
  <1>17. Answered(asked, out2)
    <2>1. /\ \A k \in 1..Len(out) : out[k].rq # "int_ret" =>
                IsRequest(asked, out[k].tag) /\ Matches(asked[out[k].tag], out[k])
          /\ \A j, k \in 1..Len(out) :
                /\ out[j].rq # "int_ret" /\ out[k].rq # "int_ret"
                /\ out[j].tag = out[k].tag
                => j = k
      BY <1>0, <1>1 DEF Answered
    <2>2. \A k \in 1..Len(out2) : out2[k].rq # "int_ret" =>
             IsRequest(asked, out2[k].tag) /\ Matches(asked[out2[k].tag], out2[k])
      BY <1>0, <2>1, <1>6, <1>7
    <2>3. ASSUME NEW j \in 1..Len(out2), NEW k \in 1..Len(out2),
                 out2[j].rq # "int_ret", out2[k].rq # "int_ret", out2[j].tag = out2[k].tag
          PROVE  j = k
      <3>1. p.tag > 0 => ~\E l \in 1..Len(out) : out[l].rq # "int_ret" /\ out[l].tag = p.tag
        BY <1>0, <1>2 DEF Acked
      <3>2. CASE j \in 1..Len(out) /\ k \in 1..Len(out)
        BY SMTT(30), <1>0, <2>1, <2>3, <3>2, <1>6
      <3>3. CASE j \notin 1..Len(out) \/ k \notin 1..Len(out)
        BY SMTT(30), <1>0, <2>3, <3>1, <3>3, <1>6
      <3> QED BY <1>0, <3>2, <3>3
    <2> QED BY <1>0, <2>2, <2>3 DEF Answered
  <1>18. Accounted(t, asked, replies, out2)
    <2> SUFFICES ASSUME NEW i \in 1..Len(asked), asked[i] # Event
                 PROVE  /\ Queued(t, i) \/ Open(t, replies, i) \/ Acked(out2, i)
                        /\ asked[i].region = "intr" =>
                              \/ Queued(t, i)
                              \/ \E k \in 1..Len(out2) :
                                    /\ out2[k].tag = i /\ out2[k].rq = "int_ret"
                                    /\ out2[k].cpu = asked[i].target
      BY DEF Accounted
    <2>1. /\ Queued(s, i) \/ Open(s, replies, i) \/ Acked(out, i)
          /\ asked[i].region = "intr" =>
                \/ Queued(s, i)
                \/ \E k \in 1..Len(out) :
                      out[k].tag = i /\ out[k].rq = "int_ret" /\ out[k].cpu = asked[i].target
      BY <1>0, <1>1 DEF Accounted
    <2>2. i > 0  OBVIOUS
    <2>3. Open(s, replies, i) => Open(t, replies, i)
      <3>1. ASSUME NEW w \in 0..2, NEW k \in 1..Len(Sending(s, w)), Live(s, w, k), Sending(s, w)[k].tag = i
            PROVE  Open(t, replies, i)
        <4>1. Live(t, w, k) /\ Sending(t, w)[k].tag = i  BY <1>0, <3>1
        <4>2. k \in 1..Len(Sending(t, w))  BY <1>0, <4>1 DEF Live
        <4> QED BY <1>0, <4>1, <4>2 DEF Open
      <3> QED BY <1>0, <3>1 DEF Open
    <2>4. Queued(t, i) \/ Open(t, replies, i) \/ Acked(out2, i)
      <3>1. Acked(out, i) => Acked(out2, i)  BY <1>0, <2>2, <1>9
      <3>2. CASE i = p.tag
        BY <1>0, <3>2, <2>2, <1>8, <1>9
      <3>3. CASE i # p.tag
        <4>1. Queued(s, i) => Queued(t, i)  BY <1>0, <3>3, <2>2, <1>2
        <4> QED BY <1>0, <4>1, <3>1, <2>1, <2>3
      <3> QED BY <1>0, <3>2, <3>3
    <2>5. ASSUME asked[i].region = "intr", ~Queued(t, i)
          PROVE  \E k \in 1..Len(out2) :
                    out2[k].tag = i /\ out2[k].rq = "int_ret" /\ out2[k].cpu = asked[i].target
      <3>1. CASE Queued(s, i)
        <4>1. i = p.tag /\ p.rq # "int"  BY SMTT(30), <1>0, <3>1, <2>2, <2>5, <1>2, <1>8
        <4>2. p.region = "intr" /\ p.target = asked[i].target  BY <1>0, <4>1, <1>7, <2>5
        <4> QED BY <1>0, <4>1, <4>2 DEF p, id
      <3>2. CASE ~Queued(s, i)
        BY <1>0, <2>1, <2>5, <3>2, <1>5
      <3> QED BY <1>0, <3>1, <3>2
    <2> QED BY <1>0, <2>4, <2>5
  <1> QED BY <1>0, <1>1, <1>12, <1>13, <1>14, <1>15, <1>16, <1>17, <1>18 DEF BridgeSound

\* Served, of any list of requests.
ServedIn(asked) ==
    \A i \in 1..Len(asked) : IoLoad(asked[i]) =>
        /\ asked[i].thr = 0
        /\ \A j \in 1..(i - 1) : IoLoad(asked[j]) => set_dev(asked[j].region) # set_dev(asked[i].region)

\* The interface and the device number of a load that a device answers.
LEMMA DeviceOf ==
    ASSUME NEW m, IoLoad(m)
    PROVE  /\ PortOf(m.region) \in 0..2 /\ m.rq = "load"
           /\ set_dev(m.region) = IF PortOf(m.region) = 2 THEN 2 ELSE 1
           /\ m.region \in {"dram0", "dram1", "jbi"}
  BY DEF IoLoad, set_dev, PortOf

(* A load that a device has to answer leaves the queue and is sent on.     *)
AskStep(s, t, p, u, v) ==
    /\ s.pcx # <<>> /\ p = s.mem[s.pcx[1]] /\ p.io_wait
    /\ DOMAIN t = ListFields /\ t.mem = s.mem /\ t.pcx = Tail(s.pcx) /\ t.heap = s.heap
    /\ t.cpx = s.cpx /\ t.data \in IobLines
    /\ u \in UcbPackets /\ u.type = "read" /\ u.tag = p.tag /\ u.left > 0
    /\ v = PortOf(p.region)
    /\ \A w \in 0..2 : Sending(t, w) = IF w = v THEN Append(Sending(s, w), u) ELSE Sending(s, w)
    /\ t.load = IF v = 2 THEN s.load ELSE [s.load EXCEPT ![p.thr] = Append(@, s.pcx[1])]
    /\ t.jload = IF v = 2 THEN [s.jload EXCEPT ![p.thr] = Append(@, s.pcx[1])] ELSE s.jload

\* handle_pcx on a load for a device: its object leaves the queue and is no
\* one's but the device's, as Served leaves no older load on its list.
LEMMA AskKeeps ==
    ASSUME NEW s, NEW S, NEW asked \in Seq(S), NEW replies, NEW out, BridgeSound(s, asked, replies, out),
           ServedIn(asked), NEW t, NEW p, NEW u, NEW v, AskStep(s, t, p, u, v)
    PROVE  BridgeSound(t, asked, replies, out)
  <1> DEFINE id == s.pcx[1]
             i == p.tag
  <1>0. /\ s.pcx # <<>> /\ p = s.mem[s.pcx[1]] /\ p.io_wait
        /\ DOMAIN t = ListFields /\ t.mem = s.mem /\ t.pcx = Tail(s.pcx) /\ t.heap = s.heap
        /\ t.cpx = s.cpx /\ t.data \in IobLines
        /\ u \in UcbPackets /\ u.type = "read" /\ u.tag = i /\ u.left > 0
        /\ v = PortOf(p.region)
        /\ \A w \in 0..2 : Sending(t, w) = IF w = v THEN Append(Sending(s, w), u) ELSE Sending(s, w)
    BY DEF AskStep
  <1>1. /\ IsLists(s) /\ out \in Seq(CpxPackets) /\ Objects(s) /\ InQueue(s, asked, out)
        /\ AtDevice(s, asked, replies, out) /\ Loaded(s, asked) /\ Answered(asked, out)
        /\ Accounted(s, asked, replies, out)
        /\ replies \subseteq [where : 0..2, thr : {0}, tag : Nat]
    BY DEF BridgeSound
  <1>2. /\ id \in 1..Len(s.mem) /\ p \in Packets /\ Fits(asked, p)
        /\ i > 0 => Queued(s, i) /\ ~Acked(out, i)
        /\ \A k \in 1..Len(t.pcx) : k + 1 \in 1..Len(s.pcx) /\ t.pcx[k] = s.pcx[k + 1]
        /\ \A k \in 1..Len(t.pcx) : t.pcx[k] # id
        /\ \A k \in 1..Len(s.heap) : s.heap[k] # id
        /\ \A j : j > 0 => (Queued(t, j) <=> Queued(s, j) /\ j # i)
        /\ t.pcx \in Seq(1..Len(s.mem))
        /\ \A j, k \in 1..Len(t.pcx) : t.pcx[j] = t.pcx[k] => j = k
        /\ \A j \in 1..Len(t.pcx), k \in 1..Len(s.heap) : t.pcx[j] # s.heap[k]
    <2>1. Dequeued(s, t, asked, out, id, p)  BY <1>0, <1>1, DequeueFacts
    <2> QED BY <2>1 DEF Dequeued
  <1>3. /\ i \in 1..Len(asked) /\ i > 0 /\ IsRequest(asked, i) /\ IoLoad(asked[i])
        /\ p.region = asked[i].region /\ p.thr = asked[i].thr
    <2>1. p.rq # "int"  BY <1>0, <1>2, Zenon DEF Fits
    <2>2. /\ IsRequest(asked, i)
          /\ p.io_wait <=> IoLoad(asked[i])
          /\ p.region = asked[i].region /\ p.thr = asked[i].thr
      BY <1>2, <2>1, Zenon DEF Fits
    <2>3. IoLoad(asked[i])
      <3>1. p.io_wait  BY <1>0
      <3>2. p.io_wait <=> IoLoad(asked[i])  BY <2>2
      <3> QED BY <3>1, <3>2, Zenon
    <2>4. i \in 1..Len(asked)
      <3>1. IsRequest(asked, i)  BY <2>2
      <3> HIDE DEF i
      <3> QED BY <3>1 DEF IsRequest
    <2>5. i > 0  BY <2>4
    <2> QED BY <2>2, <2>3, <2>4, <2>5
  <1>4. /\ v \in 0..2 /\ set_dev(asked[i].region) = IF v = 2 THEN 2 ELSE 1
        /\ asked[i].region # "intr" /\ PortOf(asked[i].region) = v
    <2>1. PortOf(p.region) = PortOf(asked[i].region)  BY <1>3
    <2>2. v = PortOf(p.region)  BY <1>0
    <2>3. /\ PortOf(asked[i].region) \in 0..2 /\ asked[i].region \in {"dram0", "dram1", "jbi"}
          /\ set_dev(asked[i].region) = IF PortOf(asked[i].region) = 2 THEN 2 ELSE 1
      BY <1>3, DeviceOf
    <2> QED BY <2>1, <2>2, <2>3
  <1>5. p.thr = 0
    BY <1>3 DEF ServedIn
  <1> HIDE DEF id, i
  <1>6. Loading(s, v) = <<>>
    <2> SUFFICES ASSUME Loading(s, v) # <<>> PROVE FALSE
      OBVIOUS
    <2>1. PICK j \in 1..Len(asked) :
             /\ IoLoad(asked[j]) /\ ~Queued(s, j)
             /\ set_dev(asked[j].region) = IF v = 2 THEN 2 ELSE 1
      BY <1>1, <1>4 DEF Loaded
    <2>2. j # i  BY <2>1, <1>2, <1>3
    <2>3. j \in Nat /\ i \in Nat  BY <1>3, ElementFacts
    <2>4. CASE j < i
      <3>1. j \in 1..(i - 1)  BY <2>3, <2>4
      <3> QED BY <3>1, <2>1, <1>3, <1>4 DEF ServedIn
    <2>5. CASE i < j
      <3>1. i \in 1..(j - 1)  BY <2>3, <2>5, <1>3
      <3> QED BY <3>1, <2>1, <1>3, <1>4 DEF ServedIn
    <2> QED BY <2>2, <2>3, <2>4, <2>5
  <1>7. /\ s.load \in [0..1 -> Seq(1..Len(s.mem))] /\ s.jload \in [0..1 -> Seq(1..Len(s.mem))]
        /\ s.heap \in Seq(1..Len(s.mem)) /\ s.cpx \in Seq(CpxPackets)
        /\ s.dev \in Seq(UcbPackets) /\ s.dram0 \in Seq(UcbPackets) /\ s.dram1 \in Seq(UcbPackets)
    BY <1>1 DEF IsLists
  <1>8. /\ t.load \in [0..1 -> Seq(1..Len(s.mem))] /\ t.jload \in [0..1 -> Seq(1..Len(s.mem))]
        /\ t.load[0] = IF v = 2 THEN s.load[0] ELSE Append(s.load[0], id)
        /\ t.jload[0] = IF v = 2 THEN Append(s.jload[0], id) ELSE s.jload[0]
    <2>1. id = s.pcx[1]  BY DEF id
    <2>2. Append(s.load[0], id) \in Seq(1..Len(s.mem)) /\ Append(s.jload[0], id) \in Seq(1..Len(s.mem))
      BY <1>2, <1>7, AppendFacts
    <2>3. /\ t.load = IF v = 2 THEN s.load ELSE [s.load EXCEPT ![0] = Append(@, id)]
          /\ t.jload = IF v = 2 THEN [s.jload EXCEPT ![0] = Append(@, id)] ELSE s.jload
      BY <2>1, <1>5 DEF AskStep
    <2>4. CASE v = 2
      BY SMTT(30), <2>2, <2>3, <2>4, <1>7
    <2>5. CASE v # 2
      BY SMTT(30), <2>2, <2>3, <2>5, <1>7
    <2> QED BY <2>4, <2>5
  <1>9. \A w \in 0..2 : Loading(t, w) = IF (w = 2) <=> (v = 2) THEN <<id>> ELSE Loading(s, w)
    <2>1. <<id>> = Append(<<>>, id)  OBVIOUS
    <2> QED BY <2>1, <1>6, <1>8 DEF Loading
  <1>10. <<id>> # <<>> /\ <<id>>[1] = id
    OBVIOUS
  <1>11. \A w \in 0..2 : Sending(s, w) \in Seq(UcbPackets)
    BY <1>7 DEF Sending
  <1>12. ASSUME NEW w \in 0..2
         PROVE  /\ Sending(t, w) \in Seq(UcbPackets) /\ Len(Sending(s, w)) \in Nat
                /\ w # v => Sending(t, w) = Sending(s, w)
                /\ w = v => /\ Sending(t, w)[Len(Sending(s, w)) + 1] = u
                            /\ \A k : k \in 1..Len(Sending(t, w)) <=>
                                      (k \in 1..Len(Sending(s, w)) \/ k = Len(Sending(s, w)) + 1)
                /\ \A k \in 1..Len(Sending(s, w)) : Sending(t, w)[k] = Sending(s, w)[k]
    <2>1. Sending(s, w) \in Seq(UcbPackets)  BY <1>11
    <2>2. Sending(t, w) = IF w = v THEN Append(Sending(s, w), u) ELSE Sending(s, w)  BY <1>0
    <2>3. u \in UcbPackets  BY <1>0
    <2> QED BY <2>1, <2>2, <2>3, AppendFacts, ElementFacts
  <1>13. \A w \in 0..2 : \A k :
            Live(t, w, k) <=> \/ Live(s, w, k)
                              \/ w = v /\ k = Len(Sending(s, w)) + 1
    BY SMTT(30), <1>0, <1>12 DEF Live
  <1>14. ASSUME NEW w \in 0..2, NEW j, Expected(s, asked, out, w, j)
         PROVE  Expected(t, asked, out, w, j) /\ j # i
    <2>1. /\ IsRequest(asked, j) /\ ~Queued(s, j) /\ Loading(s, w) # <<>>
      BY <1>0, <1>14 DEF Expected
    <2>2. j > 0 /\ j # i  BY <2>1, <1>2, <1>3 DEF IsRequest
    <2>3. ~((w = 2) <=> (v = 2))  BY <2>1, <1>4, <1>6 DEF Loading
    <2>4. Loading(t, w) = Loading(s, w)  BY <2>3, <1>9
    <2>5. ~Queued(t, j)  BY <2>1, <2>2, <1>2
    <2>6. \A l : (\A k \in 1..Len(s.pcx) : s.pcx[k] # l) => \A k \in 1..Len(t.pcx) : t.pcx[k] # l
      BY <1>2
    <2> QED BY SMTT(30), <2>2, <2>4, <2>5, <2>6, <1>0, <1>14 DEF Expected
  <1>15. Expected(t, asked, out, v, i)
    <2>1. Loading(t, v) = <<id>>  BY <1>4, <1>9
    <2>2. ~Queued(t, i) /\ ~Acked(out, i)  BY <1>2, <1>3
    <2>3. t.mem[id] = p /\ p.tag = i  BY <1>0 DEF id, i
    <2>4. Fits(asked, t.mem[id]) /\ t.heap = s.heap  BY <2>3, <1>0, <1>2
    <2>5. /\ \A k \in 1..Len(t.pcx) : t.pcx[k] # id
          /\ \A k \in 1..Len(t.heap) : t.heap[k] # id
      BY <2>4, <1>2
    <2> QED BY <2>1, <2>2, <2>3, <2>4, <2>5, <1>3, <1>4, <1>10 DEF Expected
  <1>16. IsLists(t)
    <2>1. t.dev \in Seq(UcbPackets) /\ t.dram0 \in Seq(UcbPackets) /\ t.dram1 \in Seq(UcbPackets)
      BY <1>12 DEF Sending
    <2>2. /\ t.mem = s.mem /\ t.heap = s.heap /\ t.cpx = s.cpx /\ t.data \in IobLines /\ DOMAIN t = ListFields
      BY <1>0
    <2>3. t.pcx \in Seq(1..Len(s.mem))  BY <1>2
    <2>4. t.load \in [0..1 -> Seq(1..Len(s.mem))] /\ t.jload \in [0..1 -> Seq(1..Len(s.mem))]
      BY <1>8
    <2>5. s.mem \in Seq(Packets)  BY <1>1 DEF IsLists
    <2> QED BY <2>1, <2>2, <2>3, <2>4, <2>5, <1>7 DEF IsLists
  <1>17. Objects(t)
    <2>1. \A j, k \in 1..Len(s.heap) : s.heap[j] = s.heap[k] => j = k
      BY <1>1 DEF Objects
    <2>2. t.heap = s.heap  BY <1>0
    <2>3. /\ \A j, k \in 1..Len(t.pcx) : t.pcx[j] = t.pcx[k] => j = k
          /\ \A j \in 1..Len(t.pcx), k \in 1..Len(s.heap) : t.pcx[j] # s.heap[k]
      BY <1>2
    <2> QED BY <2>1, <2>2, <2>3 DEF Objects
  <1>18. InQueue(t, asked, out)
    <2>1. Len(t.pcx) \in Nat  BY <1>2, ElementFacts
    <2>2. \A k \in 1..Len(t.pcx) : k \in Nat /\ k + 1 \in 1..Len(s.pcx) /\ t.pcx[k] = s.pcx[k + 1]
      BY <2>1, <1>2
    <2>3. t.mem = s.mem  BY <1>0
    <2> QED BY <2>2, <2>3, <1>1, DequeueQueue
  <1>19. \A r \in replies : r.where \in 0..2 /\ Expected(s, asked, out, r.where, r.tag)
    BY <1>1 DEF AtDevice
  <1>20. AtDevice(t, asked, replies, out)
    <2>1. ASSUME NEW w \in 0..2, NEW k \in 1..Len(Sending(t, w)), Live(t, w, k)
          PROVE  /\ Expected(t, asked, out, w, Sending(t, w)[k].tag)
                 /\ \A l \in 1..Len(Sending(t, w)) :
                       Live(t, w, l) /\ Sending(t, w)[l].tag = Sending(t, w)[k].tag => l = k
                 /\ \A r \in replies : r.tag # Sending(t, w)[k].tag
      <3>1. ASSUME NEW l, Live(s, w, l)
            PROVE  /\ l \in 1..Len(Sending(s, w)) /\ Sending(t, w)[l] = Sending(s, w)[l]
                   /\ Expected(s, asked, out, w, Sending(s, w)[l].tag)
                   /\ Sending(s, w)[l].tag # i
                   /\ \A m \in 1..Len(Sending(s, w)) :
                        Live(s, w, m) /\ Sending(s, w)[m].tag = Sending(s, w)[l].tag => m = l
                   /\ \A r \in replies : r.tag # Sending(s, w)[l].tag
        <4>1. l \in 1..Len(Sending(s, w))  BY <3>1 DEF Live
        <4>2. /\ Expected(s, asked, out, w, Sending(s, w)[l].tag)
              /\ \A m \in 1..Len(Sending(s, w)) :
                    Live(s, w, m) /\ Sending(s, w)[m].tag = Sending(s, w)[l].tag => m = l
              /\ \A r \in replies : r.tag # Sending(s, w)[l].tag
          BY <4>1, <3>1, <1>1 DEF AtDevice
        <4> QED BY <4>1, <4>2, <1>12, <1>14
      <3>2. ASSUME NEW l, Live(t, w, l), ~Live(s, w, l)
            PROVE  w = v /\ l = Len(Sending(s, w)) + 1 /\ Sending(t, w)[l].tag = i
        BY ZenonT(40), <3>2, <1>0, <1>12, <1>13
      <3>3. CASE Live(s, w, k)
        <4>1. \A l \in 1..Len(Sending(t, w)) :
                 Live(t, w, l) /\ Sending(t, w)[l].tag = Sending(t, w)[k].tag => l = k
          BY <3>1, <3>2, <3>3
        <4> QED BY <4>1, <3>1, <3>3, <1>14
      <3>4. CASE ~Live(s, w, k)
        <4>1. \A l \in 1..Len(Sending(t, w)) :
                 Live(t, w, l) /\ Sending(t, w)[l].tag = Sending(t, w)[k].tag => l = k
          BY <2>1, <3>1, <3>2, <3>4
        <4>2. \A r \in replies : r.tag # i  BY <1>14, <1>19
        <4> QED BY <4>1, <4>2, <2>1, <3>2, <3>4, <1>15
      <3> QED BY <3>3, <3>4
    <2>2. \A r \in replies : Expected(t, asked, out, r.where, r.tag)
      BY <1>14, <1>19
    <2> QED BY <2>1, <2>2 DEF AtDevice
  <1>21. Loaded(t, asked)
    <2> SUFFICES ASSUME NEW w \in 0..2, Loading(t, w) # <<>>
                 PROVE  \E j \in 1..Len(asked) :
                          /\ IoLoad(asked[j]) /\ ~Queued(t, j)
                          /\ set_dev(asked[j].region) = IF w = 2 THEN 2 ELSE 1
      BY DEF Loaded
    <2>1. CASE (w = 2) <=> (v = 2)
      BY <2>1, <1>2, <1>3, <1>4
    <2>2. CASE ~((w = 2) <=> (v = 2))
      <3>1. PICK j \in 1..Len(asked) :
               /\ IoLoad(asked[j]) /\ ~Queued(s, j)
               /\ set_dev(asked[j].region) = IF w = 2 THEN 2 ELSE 1
        BY <2>2, <1>1, <1>9 DEF Loaded
      <3>2. ~Queued(t, j)  BY <3>1, <1>2
      <3> QED BY <3>1, <3>2
    <2> QED BY <2>1, <2>2
  <1>22. Accounted(t, asked, replies, out)
    <2> SUFFICES ASSUME NEW j \in 1..Len(asked), asked[j] # Event
                 PROVE  /\ Queued(t, j) \/ Open(t, replies, j) \/ Acked(out, j)
                        /\ asked[j].region = "intr" =>
                              \/ Queued(t, j)
                              \/ \E k \in 1..Len(out) :
                                    /\ out[k].tag = j /\ out[k].rq = "int_ret"
                                    /\ out[k].cpu = asked[j].target
      BY DEF Accounted
    <2>1. /\ Queued(s, j) \/ Open(s, replies, j) \/ Acked(out, j)
          /\ asked[j].region = "intr" =>
                \/ Queued(s, j)
                \/ \E k \in 1..Len(out) :
                      out[k].tag = j /\ out[k].rq = "int_ret" /\ out[k].cpu = asked[j].target
      BY <1>1 DEF Accounted
    <2>2. Open(s, replies, j) => Open(t, replies, j)
      <3>1. ASSUME NEW w \in 0..2, NEW k \in 1..Len(Sending(s, w)), Live(s, w, k), Sending(s, w)[k].tag = j
            PROVE  Open(t, replies, j)
        <4>1. Live(t, w, k) /\ Sending(t, w)[k].tag = j  BY <3>1, <1>12, <1>13
        <4>2. k \in 1..Len(Sending(t, w))  BY <4>1 DEF Live
        <4> QED BY <4>1, <4>2 DEF Open
      <3> QED BY <3>1 DEF Open
    <2>3. CASE j = i
      <3> DEFINE k == Len(Sending(s, v)) + 1
      <3>1. Live(t, v, k) /\ Sending(t, v)[k].tag = i
        BY <1>4, <1>0, <1>12, <1>13
      <3>2. k \in 1..Len(Sending(t, v))  BY <3>1 DEF Live
      <3>3. Open(t, replies, i)  BY <3>1, <3>2, <1>4 DEF Open
      <3> QED BY <3>3, <2>3, <1>4
    <2>4. CASE j # i
      <3>1. Queued(s, j) => Queued(t, j)  BY <2>4, <1>2
      <3> QED BY <3>1, <2>1, <2>2
    <2> QED BY <2>3, <2>4
  <1> QED BY <1>1, <1>16, <1>17, <1>18, <1>20, <1>21, <1>22 DEF BridgeSound

(* Counting down the wait of an object changes nothing else.               *)
LEMMA WaitKeeps ==
    ASSUME NEW s, NEW asked, NEW replies, NEW out, BridgeSound(s, asked, replies, out),
           NEW id \in 1..Len(s.mem), NEW n \in Nat
    PROVE  BridgeSound([s EXCEPT !.mem = [s.mem EXCEPT ![id] = [s.mem[id] EXCEPT !.wait = n]]],
                asked, replies, out)
  <1> DEFINE mem == [s.mem EXCEPT ![id] = [s.mem[id] EXCEPT !.wait = n]]
             t == [s EXCEPT !.mem = mem]
             Kept(f) == \A j \in 1..Len(s.mem) : mem[j][f] = s.mem[j][f]
  <1>1. /\ IsLists(s) /\ out \in Seq(CpxPackets) /\ Objects(s) /\ InQueue(s, asked, out)
        /\ AtDevice(s, asked, replies, out) /\ Loaded(s, asked) /\ Answered(asked, out)
        /\ Accounted(s, asked, replies, out)
        /\ replies \subseteq [where : 0..2, thr : {0}, tag : Nat]
    BY DEF BridgeSound
  <1>2. s.mem \in Seq(Packets) /\ s.pcx \in Seq(1..Len(s.mem)) /\ DOMAIN s = ListFields
    BY <1>1 DEF IsLists
  <1>3. s.mem[id] \in Packets  BY <1>2
  <1>4. [s.mem[id] EXCEPT !.wait = n] \in Packets
    BY <1>3 DEF Packets
  <1>5. /\ mem \in Seq(Packets) /\ Len(mem) = Len(s.mem)
        /\ mem[id] = [s.mem[id] EXCEPT !.wait = n]
        /\ \A j \in 1..Len(s.mem) : j # id => mem[j] = s.mem[j]
    BY <1>2, <1>4, PutFacts
  <1>6. /\ Kept("cpu") /\ Kept("thr") /\ Kept("rq") /\ Kept("region") /\ Kept("line")
        /\ Kept("target") /\ Kept("tag") /\ Kept("io_wait")
    <2>1. /\ mem[id].cpu = s.mem[id].cpu /\ mem[id].thr = s.mem[id].thr
          /\ mem[id].rq = s.mem[id].rq /\ mem[id].region = s.mem[id].region
          /\ mem[id].line = s.mem[id].line /\ mem[id].target = s.mem[id].target
          /\ mem[id].tag = s.mem[id].tag /\ mem[id].io_wait = s.mem[id].io_wait
      <3>1. mem[id] = [s.mem[id] EXCEPT !.wait = n]  BY <1>5
      <3> HIDE DEF mem
      <3> QED BY <3>1, <1>3 DEF Packets
    <2>2. \A j \in 1..Len(s.mem) : j # id => mem[j] = s.mem[j]  BY <1>5
    <2> HIDE DEF mem
    <2> QED BY <2>1, <2>2
  <1>7. /\ DOMAIN t = ListFields /\ t.mem = mem /\ t.pcx = s.pcx /\ t.heap = s.heap
        /\ t.load = s.load /\ t.jload = s.jload /\ t.cpx = s.cpx /\ t.dev = s.dev
        /\ t.dram0 = s.dram0 /\ t.dram1 = s.dram1 /\ t.data = s.data
    BY <1>2 DEF ListFields
  <1> HIDE DEF mem, t
  <1>8. \A j \in 1..Len(s.mem) : Fits(asked, s.mem[j]) => Fits(asked, mem[j])
    BY <1>6 DEF Fits
  <1>9. \A k \in 1..Len(s.pcx) : s.pcx[k] \in 1..Len(s.mem)
    BY <1>2
  <1>10. \A i : Queued(t, i) <=> Queued(s, i)
    BY SMTT(30), <1>6, <1>7, <1>9 DEF Queued
  <1>11. \A w \in 0..2 : /\ Sending(t, w) = Sending(s, w) /\ Loading(t, w) = Loading(s, w)
                         /\ Loading(s, w) # <<>> => Loading(s, w)[1] \in 1..Len(s.mem)
    <2>1. s.load \in [0..1 -> Seq(1..Len(s.mem))] /\ s.jload \in [0..1 -> Seq(1..Len(s.mem))]
      BY <1>1 DEF IsLists
    <2>2. \A w \in 0..2 : Loading(s, w) \in Seq(1..Len(s.mem))
      BY <2>1 DEF Loading
    <2>3. \A w \in 0..2 : Loading(s, w) # <<>> => Loading(s, w)[1] \in 1..Len(s.mem)
      BY SMTT(30), <2>2
    <2> QED BY <2>3, <1>7 DEF Sending, Loading
  <1>12. \A w \in 0..2 : \A k : Live(t, w, k) <=> Live(s, w, k)
    BY <1>11 DEF Live
  <1>13. ASSUME NEW w \in 0..2, NEW i, Expected(s, asked, out, w, i)
         PROVE  Expected(t, asked, out, w, i)
    <2>1. Loading(s, w) # <<>>  BY <1>13 DEF Expected
    <2>2. Loading(s, w)[1] \in 1..Len(s.mem)  BY <2>1, <1>11
    <2>3. s.mem[Loading(s, w)[1]].tag = mem[Loading(s, w)[1]].tag  BY <2>2, <1>6
    <2> QED BY <1>13, <2>2, <2>3, <1>7, <1>8, <1>10, <1>11 DEF Expected
  <1>14. IsLists(t)
    BY <1>1, <1>5, <1>7 DEF IsLists
  <1>15. Objects(t)
    BY <1>1, <1>7 DEF Objects
  <1>16. InQueue(t, asked, out)
    <2>1. \A k \in 1..Len(s.pcx) : mem[s.pcx[k]].tag = s.mem[s.pcx[k]].tag
      BY <1>6, <1>9
    <2>2. \A k \in 1..Len(s.pcx) : Fits(asked, s.mem[s.pcx[k]]) => Fits(asked, mem[s.pcx[k]])
      BY <1>8, <1>9
    <2>3. t.mem = mem /\ t.pcx = s.pcx  BY <1>7
    <2>4. /\ \A k \in 1..Len(s.pcx) :
               /\ Fits(asked, s.mem[s.pcx[k]])
               /\ s.mem[s.pcx[k]].tag > 0 => ~Acked(out, s.mem[s.pcx[k]].tag)
          /\ \A j, k \in 1..Len(s.pcx) :
               s.mem[s.pcx[j]].tag = s.mem[s.pcx[k]].tag /\ s.mem[s.pcx[j]].tag > 0 => j = k
      BY <1>1 DEF InQueue
    <2>5. \A k \in 1..Len(s.pcx) :
             /\ Fits(asked, mem[s.pcx[k]])
             /\ mem[s.pcx[k]].tag > 0 => ~Acked(out, mem[s.pcx[k]].tag)
      BY <2>1, <2>2, <2>4
    <2>6. \A j, k \in 1..Len(s.pcx) :
             mem[s.pcx[j]].tag = mem[s.pcx[k]].tag /\ mem[s.pcx[j]].tag > 0 => j = k
      BY <2>1, <2>4
    <2> QED BY <2>3, <2>5, <2>6 DEF InQueue
  <1>17. AtDevice(t, asked, replies, out)
    BY <1>1, <1>11, <1>12, <1>13 DEF AtDevice
  <1>18. Loaded(t, asked)
    BY <1>1, <1>10, <1>11 DEF Loaded
  <1>19. Accounted(t, asked, replies, out)
    <2>1. \A i : Open(t, replies, i) <=> Open(s, replies, i)
      BY <1>11, <1>12 DEF Open
    <2>2. Accounted(s, asked, replies, out)  BY <1>1
    <2> QED BY <2>1, <2>2, <1>10 DEF Accounted
  <1>20. BridgeSound(t, asked, replies, out)
    BY <1>1, <1>14, <1>15, <1>16, <1>17, <1>18, <1>19 DEF BridgeSound
  <1> QED BY <1>20 DEF t, mem

LEMMA AppendLast ==
    ASSUME NEW S, NEW told \in Seq(S), NEW c \in Seq(S), NEW one \in S
    PROVE  /\ c \o <<one>> = Append(c, one) /\ Append(c, one) \in Seq(S)
           /\ told \o Append(c, one) = Append(told \o c, one) /\ told \o c \in Seq(S)
  OBVIOUS

LEMMA AppendTwo ==
    ASSUME NEW S, NEW q \in Seq(S), NEW a \in S, NEW b \in S
    PROVE  LET r == Append(Append(q, a), b)
           IN  /\ r \in Seq(S) /\ Len(q) \in Nat /\ Len(r) = Len(q) + 2
               /\ r[Len(q) + 1] = a /\ r[Len(q) + 2] = b
               /\ \A k \in 1..Len(q) : r[k] = q[k]
  OBVIOUS

Grown(out, d, out2, S, one, two, n) ==
    /\ d \in Seq(S) /\ out2 \in Seq(S) /\ Len(out) \in Nat
    /\ Len(out) + 1 <= Len(out2) /\ out2[Len(out) + 1] = one
    /\ \A k \in 1..Len(out) : out2[k] = out[k]
    /\ \A k \in 1..Len(out2) : k > Len(out) + 1 => k = Len(out) + 2 /\ n = 2
    /\ n = 2 => Len(out) + 2 \in 1..Len(out2) /\ out2[Len(out) + 2] = two

(* What an answer, with or without an interrupt, adds to the packets.      *)
LEMMA OutGrows ==
    ASSUME NEW S, NEW told \in Seq(S), NEW c \in Seq(S), NEW one \in S, NEW two \in S,
           NEW n, NEW d, d = c \o <<one>> \o (IF n = 2 THEN <<two>> ELSE <<>>)
    PROVE  Grown(told \o c, d, told \o d, S, one, two, n)
  <1> DEFINE out == told \o c
             out2 == told \o d
             both == n = 2
  <1> DEFINE c1 == Append(c, one)
             o1 == Append(out, one)
  <1>0. out2 = told \o d /\ d = c \o <<one>> \o (IF both THEN <<two>> ELSE <<>>)  OBVIOUS
  <1>1. c1 \in Seq(S) /\ c \o <<one>> = c1 /\ o1 = told \o c1 /\ out \in Seq(S)
    <2>1. /\ c \o <<one>> = Append(c, one) /\ Append(c, one) \in Seq(S)
          /\ told \o Append(c, one) = Append(told \o c, one) /\ told \o c \in Seq(S)
      <3> HIDE DEF c1, o1
      <3> QED BY AppendLast
    <2> QED BY <2>1
  <1>2. /\ o1 \in Seq(S) /\ Len(out) \in Nat /\ Len(o1) = Len(out) + 1 /\ o1[Len(out) + 1] = one
        /\ \A k \in 1..Len(out) : o1[k] = out[k]
    BY SMTT(30), <1>1, AppendFacts
  <1> HIDE DEF c1, o1, out, out2
  <1>3. CASE both
    <2>1. d = c1 \o <<two>>  BY <1>0, <1>1, <1>3
    <2>2. d = Append(c1, two) /\ d \in Seq(S) /\ out2 = Append(o1, two)
      <3>1. c1 \in Seq(S)  BY <1>1
      <3>2. /\ c1 \o <<two>> = Append(c1, two) /\ Append(c1, two) \in Seq(S)
            /\ told \o Append(c1, two) = Append(told \o c1, two)
        BY <3>1, AppendLast
      <3> QED BY <1>0, <1>1, <2>1, <3>2
    <2>3. /\ out2 \in Seq(S) /\ Len(out2) = Len(out) + 2
          /\ out2[Len(out) + 1] = one /\ out2[Len(out) + 2] = two
          /\ \A k \in 1..Len(out) : out2[k] = out[k]
      <3>1. out \in Seq(S)  BY <1>1
      <3> DEFINE o2 == Append(Append(out, one), two)
      <3>2. /\ o2 \in Seq(S) /\ Len(o2) = Len(out) + 2
            /\ o2[Len(out) + 1] = one /\ o2[Len(out) + 2] = two
            /\ \A k \in 1..Len(out) : o2[k] = out[k]
        BY <3>1, AppendTwo
      <3>3. out2 = o2  BY <2>2 DEF o1
      <3> HIDE DEF o2
      <3> QED BY Zenon, <3>2, <3>3
    <2>4. /\ Len(out) + 1 <= Len(out2) /\ Len(out) + 2 \in 1..Len(out2)
          /\ \A k \in 1..Len(out2) : k > Len(out) + 1 => k = Len(out) + 2
      <3> DEFINE a == Len(out)
                 b == Len(out2)
      <3>1. a \in Nat /\ b = a + 2  BY <1>2, <2>3
      <3> HIDE DEF a, b
      <3>2. a + 1 <= b /\ a + 2 \in 1..b /\ \A k \in 1..b : k > a + 1 => k = a + 2
        BY <3>1
      <3> QED BY <3>2 DEF a, b
    <2> QED BY Zenon, <1>2, <1>3, <2>2, <2>3, <2>4 DEF Grown, out, out2, both
  <1>4. CASE ~both
    <2>1. d = c1 \o <<>>  BY <1>0, <1>1, <1>4
    <2>2. d = c1
      <3>1. c1 \in Seq(S)  BY <1>1
      <3>2. c1 \o <<>> = c1  BY <3>1
      <3> QED BY <2>1, <3>2
    <2>3. out2 = o1  BY <1>0, <1>1, <2>2
    <2>4. \A k \in 1..Len(o1) : ~(k > Len(out) + 1)  BY <1>2
    <2>5. Len(out) + 1 <= Len(o1)  BY <1>2
    <2> QED BY Zenon, <1>1, <1>2, <1>4, <2>2, <2>3, <2>4, <2>5 DEF Grown, out, out2, both
  <1> QED BY <1>3, <1>4

\* A write that is sent changes no read.
LEMMA Unwritten ==
    ASSUME NEW q \in Seq(UcbPackets), NEW u \in UcbPackets, u.type = "write", NEW r,
           r = q \/ r = Append(q, u)
    PROVE  /\ r \in Seq(UcbPackets)
           /\ \A k : (k \in 1..Len(r) /\ r[k].type = "read" /\ r[k].left > 0)
                        <=> (k \in 1..Len(q) /\ q[k].type = "read" /\ q[k].left > 0)
           /\ \A k \in 1..Len(q) : r[k] = q[k]
  <1>1. CASE r = q  BY <1>1
  <1>2. CASE r = Append(q, u)
    <2>1. /\ Append(q, u) \in Seq(UcbPackets) /\ Append(q, u)[Len(q) + 1] = u
          /\ \A k \in 1..Len(q) : Append(q, u)[k] = q[k]
          /\ \A k : k \in 1..Len(Append(q, u)) <=> (k \in 1..Len(q) \/ k = Len(q) + 1)
      BY AppendFacts
    <2> QED BY <1>2, <2>1
  <1> QED BY <1>1, <1>2

\* device::xlation makes a UCB packet of its request.
LEMMA UcbMade ==
    ASSUME NEW p \in Packets
    PROVE  /\ xlation(p) \in UcbPackets /\ xlation(p).tag = p.tag /\ xlation(p).left > 0
           /\ xlation(p).type = UcbType(p)
  <1>1. UcbWords \in Nat /\ UcbWords > 0 /\ p.tag \in Nat
    BY IobAssumption DEF Packets
  <1>2. UcbType(p) \in {"read", "write"}
    BY DEF UcbType
  <1> QED BY <1>1, <1>2 DEF xlation, UcbPackets

\* cpx::xlation makes a packet with the core, thread and kind of its request.
LEMMA AnswerMade ==
    ASSUME NEW p \in Packets, NEW data \in IobLines, NEW w \in Nat
    PROVE  /\ Answer(p, data, w) \in CpxPackets /\ Interrupt(p, w) \in CpxPackets
           /\ Answer(p, data, w).tag = p.tag /\ Interrupt(p, w).tag = p.tag
           /\ Answer(p, data, w).cpu = p.cpu /\ Answer(p, data, w).thr = p.thr
           /\ Interrupt(p, w).rq = "int_ret" /\ Interrupt(p, w).cpu = p.target
           /\ Answer(p, data, w).rq = CASE p.rq = "imiss" -> "ifill_ret" [] p.rq = "load" -> "load_ret"
                                        [] p.rq = "int" -> "int_ret" [] OTHER -> "st_ack"
           /\ p.rq \in {"imiss", "load"} /\ p.region # "avail" => Answer(p, data, w).line = data
  <1>1. /\ p.cpu \in Nat /\ p.thr \in Nat /\ p.tag \in Nat /\ p.target \in Nat
        /\ p.rq \in {"imiss", "load", "store", "int"}
        /\ "none" \in IobLines /\ "avail" \in IobLines
    BY DEF Packets, IobLines
  <1>2. p.target % 4 \in Nat /\ w + 1 \in Nat
    BY <1>1
  <1>3. /\ Answer(p, data, w).rq \in {"ifill_ret", "load_ret", "int_ret", "st_ack"}
        /\ Answer(p, data, w).line \in IobLines
    BY <1>1 DEF Answer
  <1>4. Answer(p, data, w) \in CpxPackets
    BY <1>1, <1>2, <1>3 DEF Answer, CpxPackets
  <1>5. Interrupt(p, w) \in CpxPackets
    BY <1>1, <1>2 DEF Interrupt, CpxPackets
  <1> QED BY <1>1, <1>4, <1>5 DEF Answer, Interrupt

\* handle_pcx, whatever is at the head: waiting, answered or asked of a device.
LEMMA ServeKeeps ==
    ASSUME NEW s, NEW asked \in Seq(IobMenu \cup {Event}), NEW replies, NEW told \in Seq(CpxPackets),
           BridgeSound(s, asked, replies, told \o s.cpx), ServedIn(asked),
           s.pcx # <<>>, NEW w \in ReqWaits, NEW v \in ReqWaits, ~handle_pcx(s, w, v).spurious
    PROVE  BridgeSound(handle_pcx(s, w, v), asked, replies, told \o handle_pcx(s, w, v).cpx)
  <1> DEFINE t == handle_pcx(s, w, v)
             id == Head(s.pcx)
             p == s.mem[id]
             n == IF p.wait > 1 THEN p.wait - 1 ELSE 0
             u == [s EXCEPT !.mem = [s.mem EXCEPT ![id] = [s.mem[id] EXCEPT !.wait = n]]]
             out == told \o s.cpx
  <1>1. /\ IsLists(s) /\ out \in Seq(CpxPackets)
    BY DEF BridgeSound
  <1>2. /\ s.mem \in Seq(Packets) /\ s.pcx \in Seq(1..Len(s.mem)) /\ DOMAIN s = ListFields
        /\ s.cpx \in Seq(CpxPackets) /\ s.data \in IobLines
        /\ s.dev \in Seq(UcbPackets) /\ s.dram0 \in Seq(UcbPackets) /\ s.dram1 \in Seq(UcbPackets)
    BY <1>1 DEF IsLists
  <1>3. id \in 1..Len(s.mem) /\ id = s.pcx[1] /\ p \in Packets /\ p.wait \in Nat
    <2>1. id \in 1..Len(s.mem) /\ id = s.pcx[1]
      BY <1>2, TailFacts
    <2>2. p \in Packets  BY <2>1, <1>2, ElementFacts
    <2> QED BY <2>1, <2>2 DEF Packets
  <1>4. n \in Nat
    BY <1>3
  <1>5. BridgeSound(u, asked, replies, out)
    BY <1>3, <1>4, WaitKeeps
  <1>6. /\ u.mem = [s.mem EXCEPT ![id] = [s.mem[id] EXCEPT !.wait = n]]
        /\ DOMAIN u = ListFields /\ u.pcx = s.pcx /\ u.heap = s.heap /\ u.load = s.load
        /\ u.jload = s.jload /\ u.cpx = s.cpx /\ u.dev = s.dev /\ u.dram0 = s.dram0
        /\ u.dram1 = s.dram1 /\ u.data = s.data
    BY <1>2 DEF ListFields
  <1>7. CASE p.wait > 1
    <2>1. t = u
      BY <1>7 DEF handle_pcx
    <2>2. t.cpx = s.cpx
      BY <2>1, <1>6
    <2> QED BY <2>1, <2>2, <1>5
  <1>8. CASE ~(p.wait > 1)
    <2> DEFINE dev == set_dev(p.region)
               data == IF dev = 0 THEN p.line ELSE s.data
               extra == IF dev = 4 THEN <<Interrupt(p, v)>> ELSE <<>>
    <2>1. /\ DOMAIN t = ListFields /\ t.mem = u.mem /\ t.pcx = Tail(u.pcx)
          /\ t.data = data
          /\ t.dram0 = IF p.region = "dram0" THEN Append(u.dram0, xlation(p)) ELSE u.dram0
          /\ t.dram1 = IF p.region = "dram1" THEN Append(u.dram1, xlation(p)) ELSE u.dram1
          /\ t.dev = IF dev = 2 THEN Append(u.dev, xlation(p)) ELSE u.dev
          /\ t.cpx = IF p.io_wait THEN u.cpx ELSE u.cpx \o <<Answer(p, data, w)>> \o extra
          /\ t.heap = IF p.io_wait THEN u.heap ELSE Append(u.heap, id)
          /\ t.load = IF p.io_wait /\ dev = 1
                      THEN [u.load EXCEPT ![p.thr] = Append(@, id)] ELSE u.load
          /\ t.jload = IF p.io_wait /\ dev = 2
                       THEN [u.jload EXCEPT ![p.thr] = Append(@, id)] ELSE u.jload
          /\ t.spurious = (s.spurious \/ (p.rq = "int" /\ dev \in {1, 2}))
      <3>1. /\ "mem" \in DOMAIN s /\ "heap" \in DOMAIN s /\ "pcx" \in DOMAIN s /\ "load" \in DOMAIN s
            /\ "jload" \in DOMAIN s /\ "cpx" \in DOMAIN s /\ "dev" \in DOMAIN s /\ "dram0" \in DOMAIN s
            /\ "dram1" \in DOMAIN s /\ "data" \in DOMAIN s /\ "spurious" \in DOMAIN s
        BY <1>2 DEF ListFields
      <3>2. n = 0  BY <1>8
      <3>3. DOMAIN t = ListFields  BY <1>2, <1>8 DEF handle_pcx
      <3>4. t.mem = u.mem  BY <3>1, <3>2, <1>8, <1>6 DEF handle_pcx
      <3>5. t.pcx = Tail(u.pcx)  BY <3>1, <1>8, <1>6 DEF handle_pcx
      <3>6. t.data = data  BY <3>1, <1>8, <1>6 DEF handle_pcx
      <3>7. t.dram0 = IF p.region = "dram0" THEN Append(u.dram0, xlation(p)) ELSE u.dram0
        BY <3>1, <1>8, <1>6 DEF handle_pcx
      <3>8. t.dram1 = IF p.region = "dram1" THEN Append(u.dram1, xlation(p)) ELSE u.dram1
        BY <3>1, <1>8, <1>6 DEF handle_pcx
      <3>9. t.dev = IF dev = 2 THEN Append(u.dev, xlation(p)) ELSE u.dev
        BY <3>1, <1>8, <1>6 DEF handle_pcx
      <3>10. t.cpx = IF p.io_wait THEN u.cpx ELSE u.cpx \o <<Answer(p, data, w)>> \o extra
        BY <3>1, <1>8, <1>6 DEF handle_pcx
      <3>11. t.heap = IF p.io_wait THEN u.heap ELSE Append(u.heap, id)
        BY <3>1, <1>8, <1>6 DEF handle_pcx, Recycled
      <3>12. t.load = IF p.io_wait /\ dev = 1
                      THEN [u.load EXCEPT ![p.thr] = Append(@, id)] ELSE u.load
        BY <3>1, <1>8, <1>6 DEF handle_pcx
      <3>13. t.jload = IF p.io_wait /\ dev = 2
                       THEN [u.jload EXCEPT ![p.thr] = Append(@, id)] ELSE u.jload
        BY <3>1, <1>8, <1>6 DEF handle_pcx
      <3>14. t.spurious = (s.spurious \/ (p.rq = "int" /\ dev \in {1, 2}))
        BY <3>1, <1>8 DEF handle_pcx
      <3> HIDE DEF t, u, p, id, n, data, dev, extra
      <3> QED BY <3>3, <3>4, <3>5, <3>6, <3>7, <3>8, <3>9, <3>10, <3>11, <3>12, <3>13, <3>14
    <2> DEFINE q == u.mem[id]
               ucb == xlation(p)
               port == PortOf(p.region)
    <2>2. /\ q.cpu = p.cpu /\ q.thr = p.thr /\ q.rq = p.rq /\ q.region = p.region
          /\ q.line = p.line /\ q.target = p.target /\ q.tag = p.tag /\ q.io_wait = p.io_wait
      <3>1. q = [p EXCEPT !.wait = n]  BY <1>2, <1>3, <1>6
      <3> HIDE DEF q, n, p
      <3> QED BY <3>1, <1>3 DEF Packets
    <2>3. /\ ucb \in UcbPackets /\ ucb.tag = p.tag /\ ucb.left > 0 /\ ucb.type = UcbType(p)
      BY <1>3, UcbMade
    <2>4. Fits(asked, p)
      <3>1. InQueue(s, asked, out) /\ Len(s.pcx) \in Nat /\ Len(s.pcx) > 0
        BY <1>2 DEF BridgeSound
      <3>2. 1 \in 1..Len(s.pcx)  BY <3>1
      <3> QED BY <3>1, <3>2, <1>3 DEF InQueue
    <2>5. p.rq # "int" => /\ IsRequest(asked, p.tag) /\ p.tag > 0 /\ asked[p.tag] \in IobMenu
                          /\ p.cpu = asked[p.tag].cpu /\ p.thr = asked[p.tag].thr
                          /\ p.rq = asked[p.tag].rq /\ p.region = asked[p.tag].region
                          /\ p.line = asked[p.tag].line /\ p.target = asked[p.tag].target
      <3> SUFFICES ASSUME p.rq # "int"
                   PROVE  /\ IsRequest(asked, p.tag) /\ p.tag > 0 /\ asked[p.tag] \in IobMenu
                          /\ p.cpu = asked[p.tag].cpu /\ p.thr = asked[p.tag].thr
                          /\ p.rq = asked[p.tag].rq /\ p.region = asked[p.tag].region
                          /\ p.line = asked[p.tag].line /\ p.target = asked[p.tag].target
        OBVIOUS
      <3> HIDE DEF p
      <3>1. /\ IsRequest(asked, p.tag)
            /\ p.cpu = asked[p.tag].cpu /\ p.thr = asked[p.tag].thr
            /\ p.rq = asked[p.tag].rq /\ p.region = asked[p.tag].region
            /\ p.line = asked[p.tag].line /\ p.target = asked[p.tag].target
        BY <2>4 DEF Fits
      <3>2. p.tag \in 1..Len(asked) /\ asked[p.tag] # Event  BY <3>1 DEF IsRequest
      <3>3. asked[p.tag] \in IobMenu \cup {Event}  BY <3>2, ElementFacts
      <3> QED BY <3>1, <3>2, <3>3
    <2>6. /\ p.io_wait => p.rq # "int" /\ IoLoad(asked[p.tag])
          /\ p.rq # "int" /\ IoLoad(asked[p.tag]) => p.io_wait
      BY <2>4, Zenon DEF Fits
    <2>7. /\ u.dev \in Seq(UcbPackets) /\ u.dram0 \in Seq(UcbPackets) /\ u.dram1 \in Seq(UcbPackets)
          /\ u.cpx \in Seq(CpxPackets)
      BY <1>2, <1>6
    <2>8. data \in IobLines
      <3>1. p.line \in IobLines  BY <1>3 DEF Packets
      <3> QED BY <3>1, <1>2
    <2>9. /\ port \in 0..2
          /\ dev = 2 <=> p.region = "jbi"
          /\ dev = 1 <=> p.region \in {"dram0", "dram1"}
          /\ port = 0 <=> p.region = "dram0"
          /\ port = 1 <=> p.region = "dram1"
          /\ dev = 4 <=> p.region = "intr"
          /\ dev = 0 <=> p.region = "rom"
      BY SMTT(30) DEF set_dev, PortOf
    <2> HIDE DEF t, u, p, id, n, data, dev, extra, q, ucb, port
    <2>10. ASSUME p.io_wait PROVE BridgeSound(t, asked, replies, told \o t.cpx)
      <3>1. /\ p.rq = "load" /\ p.thr = 0 /\ dev \in {1, 2}
        <4>1. p.rq # "int" /\ IoLoad(asked[p.tag])  BY <2>10, <2>6
        <4>2. p.tag \in 1..Len(asked)  BY <4>1, <2>5 DEF IsRequest
        <4>3. asked[p.tag].thr = 0  BY <4>1, <4>2 DEF ServedIn
        <4>4. asked[p.tag].rq = "load" /\ set_dev(asked[p.tag].region) \in {1, 2}
          BY <4>1 DEF IoLoad
        <4> QED BY <4>1, <4>3, <4>4, <2>5 DEF dev
      <3>2. ucb.type = "read"  BY <3>1, <2>3 DEF UcbType
      <3>3. \A x \in 0..2 : Sending(t, x) = IF x = port THEN Append(Sending(u, x), ucb) ELSE Sending(u, x)
        <4> SUFFICES ASSUME NEW x \in 0..2
                     PROVE  Sending(t, x) = IF x = port THEN Append(Sending(u, x), ucb) ELSE Sending(u, x)
          OBVIOUS
        <4>0. p.region \in {"dram0", "dram1", "jbi"}  BY <3>1, <2>9
        <4>1. CASE x = 0
          BY <4>1, <2>1, <2>9 DEF Sending, ucb
        <4>2. CASE x = 1
          BY <4>2, <2>1, <2>9 DEF Sending, ucb
        <4>3. CASE x = 2
          BY <4>3, <4>0, <2>1, <2>9 DEF Sending, ucb, port, PortOf
        <4> QED BY <4>1, <4>2, <4>3
      <3>4. /\ t.load = IF port = 2 THEN u.load ELSE [u.load EXCEPT ![q.thr] = Append(@, id)]
            /\ t.jload = IF port = 2 THEN [u.jload EXCEPT ![q.thr] = Append(@, id)] ELSE u.jload
        <4>1. (port = 2) <=> (dev = 2)
          BY <3>1, <2>9
        <4>2. CASE dev = 2
          BY <4>1, <4>2, <2>1, <2>2, <2>10
        <4>3. CASE dev = 1
          BY <4>1, <4>3, <2>1, <2>2, <2>10
        <4> QED BY <3>1, <4>2, <4>3
      <3>5. /\ t.heap = u.heap /\ t.cpx = u.cpx  BY <2>10, <2>1
      <3>6. t.mem = u.mem /\ t.pcx = Tail(u.pcx) /\ DOMAIN t = ListFields /\ t.data \in IobLines
        BY <2>1, <2>8
      <3>7. u.pcx # <<>> /\ id = u.pcx[1] /\ q = u.mem[u.pcx[1]]
        BY <1>3, <1>6 DEF q
      <3>8. q.io_wait /\ ucb.tag = q.tag /\ port = PortOf(q.region)
        BY <2>2, <2>3, <2>10 DEF port
      <3>9. ucb \in UcbPackets /\ ucb.left > 0  BY <2>3
      <3>10. AskStep(u, t, q, ucb, port)
        BY <3>2, <3>3, <3>4, <3>5, <3>6, <3>7, <3>8, <3>9 DEF AskStep
      <3>11. BridgeSound(t, asked, replies, out)
        BY <3>10, <1>5, AskKeeps
      <3> QED BY <3>5, <3>11, <1>6 DEF out
    <2>11. ASSUME ~p.io_wait PROVE BridgeSound(t, asked, replies, told \o t.cpx)
      <3> DEFINE ans == Answer(p, data, w)
                 out2 == told \o t.cpx
      <3>1. w \in Nat /\ v \in Nat  BY IobAssumption
      <3>2. /\ ans \in CpxPackets /\ Interrupt(p, v) \in CpxPackets
            /\ ans.tag = p.tag /\ Interrupt(p, v).tag = p.tag
            /\ ans.cpu = p.cpu /\ ans.thr = p.thr
            /\ Interrupt(p, v).rq = "int_ret" /\ Interrupt(p, v).cpu = p.target
            /\ ans.rq = CASE p.rq = "imiss" -> "ifill_ret" [] p.rq = "load" -> "load_ret"
                           [] p.rq = "int" -> "int_ret" [] OTHER -> "st_ack"
            /\ p.rq \in {"imiss", "load"} /\ p.region # "avail" => ans.line = data
        BY <3>1, <1>3, <2>8, AnswerMade
      <3> HIDE DEF ans
      <3>3. /\ t.cpx \in Seq(CpxPackets) /\ out2 \in Seq(CpxPackets) /\ Len(out) \in Nat
            /\ Len(out) + 1 <= Len(out2) /\ out2[Len(out) + 1] = ans
            /\ \A k \in 1..Len(out) : out2[k] = out[k]
            /\ \A k \in 1..Len(out2) : k > Len(out) + 1 => k = Len(out) + 2 /\ dev = 4
            /\ dev = 4 => Len(out) + 2 \in 1..Len(out2) /\ out2[Len(out) + 2] = Interrupt(p, v)
        <4> DEFINE two == Interrupt(p, v)
                   c == s.cpx
                   d == t.cpx
        <4>1. c \in Seq(CpxPackets) /\ ans \in CpxPackets /\ two \in CpxPackets  BY <1>2, <3>2
        <4> DEFINE n2 == IF dev = 4 THEN 2 ELSE 1
        <4>2. dev = 4 <=> n2 = 2  OBVIOUS
        <4>4. d = c \o <<ans>> \o (IF n2 = 2 THEN <<two>> ELSE <<>>)
          <5>1. t.cpx = u.cpx \o <<ans>> \o extra  BY <2>1, <2>11 DEF ans
          <5>2. u.cpx = s.cpx  BY <1>6
          <5>3. extra = (IF n2 = 2 THEN <<two>> ELSE <<>>)  BY <4>2 DEF extra
          <5> HIDE DEF n2, two
          <5> QED BY <5>1, <5>2, <5>3
        <4> HIDE DEF two, c, d, n2
        <4>6. Grown(told \o c, d, told \o d, CpxPackets, ans, two, n2)
          BY <4>1, <4>4, OutGrows
        <4>7. out = told \o c /\ out2 = told \o d  BY DEF out, c, d
        <4> HIDE DEF out, out2
        <4>8. Grown(out, d, out2, CpxPackets, ans, two, n2)  BY <4>6, <4>7
        <4> QED BY Zenon, <4>8, <4>2 DEF Grown, d, two
      <3> HIDE DEF out2
      <3>9. p.rq # "int" /\ dev \in {1, 2} => UcbType(p) = "write"
        <4> SUFFICES ASSUME p.rq # "int", dev \in {1, 2} PROVE p.rq = "store"
          BY DEF UcbType
        <4>1. p.rq # "load"  BY <2>5, <2>6, <2>11 DEF IoLoad, dev
        <4>2. p.rq # "imiss"  BY <2>5, MenuFacts DEF dev
        <4>3. p.rq \in {"imiss", "load", "store", "int"}  BY <1>3 DEF Packets
        <4> QED BY <4>1, <4>2, <4>3
      <3>10. ~(p.rq = "int" /\ dev \in {1, 2})
        BY <2>1 DEF t
      <3>11. dev \in {1, 2} => ucb.type = "write"
        BY <2>3, <3>9, <3>10
      <3>12. /\ t.dev \in Seq(UcbPackets) /\ t.dram0 \in Seq(UcbPackets) /\ t.dram1 \in Seq(UcbPackets)
             /\ \A y \in 0..2 : \A k : Live(t, y, k) <=> Live(u, y, k)
             /\ \A y \in 0..2 : \A k \in 1..Len(Sending(u, y)) : Sending(t, y)[k] = Sending(u, y)[k]
        <4>1. \A y \in 0..2 : /\ Sending(u, y) \in Seq(UcbPackets)
                              /\ \/ Sending(t, y) = Sending(u, y)
                                 \/ Sending(t, y) = Append(Sending(u, y), ucb) /\ ucb.type = "write"
          <5>1. t.dev = u.dev \/ (t.dev = Append(u.dev, ucb) /\ ucb.type = "write")
            BY <2>1, <3>11 DEF ucb
          <5>2. t.dram0 = u.dram0 \/ (t.dram0 = Append(u.dram0, ucb) /\ ucb.type = "write")
            BY <2>1, <2>9, <3>11 DEF ucb
          <5>3. t.dram1 = u.dram1 \/ (t.dram1 = Append(u.dram1, ucb) /\ ucb.type = "write")
            BY <2>1, <2>9, <3>11 DEF ucb
          <5> QED BY <5>1, <5>2, <5>3, <2>7 DEF Sending
        <4>2. ASSUME NEW y \in 0..2
              PROVE  /\ Sending(t, y) \in Seq(UcbPackets)
                     /\ \A k : Live(t, y, k) <=> Live(u, y, k)
                     /\ \A k \in 1..Len(Sending(u, y)) : Sending(t, y)[k] = Sending(u, y)[k]
          <5>1. CASE Sending(t, y) = Sending(u, y)
            BY <5>1, <4>1 DEF Live
          <5>2. CASE Sending(t, y) = Append(Sending(u, y), ucb) /\ ucb.type = "write"
            <6>1. Sending(u, y) \in Seq(UcbPackets) /\ ucb \in UcbPackets  BY <4>1, <2>3
            <6>2. /\ Sending(t, y) \in Seq(UcbPackets)
                  /\ \A k : (/\ k \in 1..Len(Sending(t, y)) /\ Sending(t, y)[k].type = "read"
                              /\ Sending(t, y)[k].left > 0)
                               <=> (/\ k \in 1..Len(Sending(u, y)) /\ Sending(u, y)[k].type = "read"
                                    /\ Sending(u, y)[k].left > 0)
                  /\ \A k \in 1..Len(Sending(u, y)) : Sending(t, y)[k] = Sending(u, y)[k]
              BY <6>1, <5>2, Unwritten
            <6> QED BY <6>2 DEF Live
          <5> QED BY <5>1, <5>2, <4>1
        <4>3. t.dev = Sending(t, 2) /\ t.dram0 = Sending(t, 0) /\ t.dram1 = Sending(t, 1)
          BY DEF Sending
        <4> QED BY <4>2, <4>3
      <3>13. \A y \in 0..2 : \A k : Live(u, y, k) => Sending(t, y)[k].tag = Sending(u, y)[k].tag
        BY <3>12 DEF Live
      <3>14. IF q.rq = "int" THEN ans.rq = "int_ret"
             ELSE /\ ans.tag = q.tag /\ ans.rq # "int_ret" /\ q.tag > 0
                  /\ Matches(asked[q.tag], ans)
        <4>1. CASE p.rq = "int"
          BY <4>1, <2>2, <3>2
        <4>2. CASE p.rq # "int"
          <5>1. p.rq \in {"imiss", "load", "store"}  BY <4>2, <1>3 DEF Packets
          <5>2. ans.rq # "int_ret"  BY <5>1, <3>2
          <5>3. ~IoLoad(asked[p.tag])  BY <4>2, <2>6, <2>11
          <5>4. p.region = "rom" /\ p.rq # "store" => ans.line = p.line
            BY <5>1, <3>2, <2>9 DEF data
          <5>5. Matches(asked[p.tag], ans)
            BY <4>2, <5>1, <5>3, <5>4, <2>5, <3>2 DEF Matches
          <5> QED BY <4>2, <5>2, <5>5, <2>2, <2>5, <3>2
        <4> QED BY <4>1, <4>2
      <3>15. q.region = "intr" =>
                \E k \in 1..Len(out2) : /\ out2[k].tag = q.tag /\ out2[k].rq = "int_ret"
                                        /\ out2[k].cpu = q.target
        <4> SUFFICES ASSUME q.region = "intr"
                     PROVE  \E k \in 1..Len(out2) : /\ out2[k].tag = q.tag /\ out2[k].rq = "int_ret"
                                                    /\ out2[k].cpu = q.target
          OBVIOUS
        <4>1. dev = 4  BY <2>2, <2>9
        <4> QED BY <4>1, <3>2, <3>3, <2>2
      <3>16. u.pcx # <<>> /\ u.pcx[1] = id /\ q = u.mem[u.pcx[1]]
        BY <1>3, <1>6 DEF q
      <3>17. \A k \in 1..Len(out2) : k > Len(out) + 1 => out2[k].rq = "int_ret"
        BY <3>2, <3>3
      <3>18. t.heap = Append(u.heap, u.pcx[1]) /\ t.load = u.load /\ t.jload = u.jload
        BY <2>1, <2>11, <3>16
      <3>19. DOMAIN t = ListFields /\ t.mem = u.mem /\ t.pcx = Tail(u.pcx) /\ t.data \in IobLines
        BY <2>1, <2>8
      <3>20. IF q.rq = "int" THEN out2[Len(out) + 1].rq = "int_ret"
             ELSE /\ out2[Len(out) + 1].tag = q.tag /\ out2[Len(out) + 1].rq # "int_ret" /\ q.tag > 0
                  /\ Matches(asked[q.tag], out2[Len(out) + 1])
                  /\ q.region = "intr" =>
                        \E k \in 1..Len(out2) : /\ out2[k].tag = q.tag /\ out2[k].rq = "int_ret"
                                                /\ out2[k].cpu = q.target
        BY <3>3, <3>14, <3>15
      <3> HIDE DEF out
      <3>21. AnswerStep(u, t, asked, out, out2)
        BY <3>3, <3>12, <3>13, <3>16, <3>17, <3>18, <3>19, <3>20 DEF AnswerStep
      <3>22. BridgeSound(t, asked, replies, out2)
        BY <3>21, <1>5, AnswerKeeps
      <3> QED BY <3>22 DEF out2
    <2>12. BridgeSound(t, asked, replies, told \o t.cpx)  BY <2>10, <2>11
    <2> QED BY <2>12 DEF t
  <1> QED BY <1>7, <1>8

(* The delays of a packet and whether it asked for the crossbar are of no  *)
(* consequence to what it says.                                            *)
Alike(out, out2) ==
    /\ Len(out2) = Len(out)
    /\ \A k \in 1..Len(out) : /\ out2[k].cpu = out[k].cpu /\ out2[k].thr = out[k].thr
                              /\ out2[k].tag = out[k].tag /\ out2[k].rq = out[k].rq
                              /\ out2[k].line = out[k].line

\* The invariant does not read delays, nor what the crossbar was told.
LEMMA SameKeeps ==
    ASSUME NEW s, NEW asked, NEW replies, NEW out, BridgeSound(s, asked, replies, out),
           NEW t, DOMAIN t = ListFields, t.mem = s.mem, t.heap = s.heap, t.pcx = s.pcx,
           t.load = s.load, t.jload = s.jload, t.dev = s.dev, t.dram0 = s.dram0,
           t.dram1 = s.dram1, t.data = s.data, t.cpx \in Seq(CpxPackets),
           NEW out2 \in Seq(CpxPackets), Alike(out, out2)
    PROVE  BridgeSound(t, asked, replies, out2)
  <1>1. \A i : Acked(out2, i) <=> Acked(out, i)
    BY DEF Acked, Alike
  <1>2. /\ \A w : Sending(t, w) = Sending(s, w) /\ Loading(t, w) = Loading(s, w)
        /\ \A i : Queued(t, i) <=> Queued(s, i)
    BY DEF Sending, Loading, Queued
  <1>3. \A w, k : Live(t, w, k) <=> Live(s, w, k)
    BY <1>2 DEF Live
  <1>4. \A i : Open(t, replies, i) <=> Open(s, replies, i)
    BY <1>2, <1>3 DEF Open
  <1>5. \A w, i : Expected(s, asked, out, w, i) => Expected(t, asked, out2, w, i)
    BY <1>1, <1>2 DEF Expected
  <1>6. IsLists(t)
    BY DEF BridgeSound, IsLists
  <1>7. Objects(t)
    BY DEF BridgeSound, Objects
  <1>8. InQueue(t, asked, out2)
    BY <1>1 DEF BridgeSound, InQueue
  <1>9. AtDevice(t, asked, replies, out2)
    <2>1. AtDevice(s, asked, replies, out)  BY DEF BridgeSound
    <2> QED BY <2>1, <1>2, <1>3, <1>5 DEF AtDevice
  <1>10. Loaded(t, asked)
    <2>1. Loaded(s, asked)  BY DEF BridgeSound
    <2> QED BY <2>1, <1>2 DEF Loaded
  <1>11. Answered(asked, out2)
    <2>1. Answered(asked, out)  BY DEF BridgeSound
    <2>2. \A m : \A k \in 1..Len(out) : Matches(m, out[k]) => Matches(m, out2[k])
      BY DEF Matches, Alike
    <2>3. Len(out2) = Len(out) /\ \A k \in 1..Len(out) : out2[k].tag = out[k].tag /\ out2[k].rq = out[k].rq
      BY DEF Alike
    <2>4. ASSUME NEW k \in 1..Len(out2), out2[k].rq # "int_ret"
          PROVE  IsRequest(asked, out2[k].tag) /\ Matches(asked[out2[k].tag], out2[k])
      <3>1. k \in 1..Len(out) /\ out[k].rq # "int_ret" /\ out2[k].tag = out[k].tag  BY <2>3, <2>4
      <3>2. IsRequest(asked, out[k].tag) /\ Matches(asked[out[k].tag], out[k])
        BY <2>1, <3>1 DEF Answered
      <3> QED BY <2>2, <3>1, <3>2
    <2>5. ASSUME NEW j \in 1..Len(out2), NEW k \in 1..Len(out2), out2[j].rq # "int_ret",
                 out2[k].rq # "int_ret", out2[j].tag = out2[k].tag
          PROVE  j = k
      <3>1. /\ j \in 1..Len(out) /\ out[j].rq # "int_ret" /\ k \in 1..Len(out) /\ out[k].rq # "int_ret"
            /\ out[j].tag = out[k].tag
        BY <2>3, <2>5
      <3> QED BY <2>1, <3>1 DEF Answered
    <2> QED BY <2>4, <2>5 DEF Answered
  <1>12. Accounted(t, asked, replies, out2)
    <2>1. Accounted(s, asked, replies, out)  BY DEF BridgeSound
    <2>2. \A i, c : (\E k \in 1..Len(out) : out[k].tag = i /\ out[k].rq = "int_ret" /\ out[k].cpu = c)
             => (\E k \in 1..Len(out2) : out2[k].tag = i /\ out2[k].rq = "int_ret" /\ out2[k].cpu = c)
      BY DEF Alike
    <2>3. ASSUME NEW i \in 1..Len(asked), asked[i] # Event
          PROVE  /\ Queued(t, i) \/ Open(t, replies, i) \/ Acked(out2, i)
                 /\ asked[i].region = "intr" =>
                       \/ Queued(t, i)
                       \/ \E k \in 1..Len(out2) :
                             out2[k].tag = i /\ out2[k].rq = "int_ret" /\ out2[k].cpu = asked[i].target
      <3>1. /\ Queued(s, i) \/ Open(s, replies, i) \/ Acked(out, i)
            /\ asked[i].region = "intr" =>
                  \/ Queued(s, i)
                  \/ \E k \in 1..Len(out) :
                        out[k].tag = i /\ out[k].rq = "int_ret" /\ out[k].cpu = asked[i].target
        BY <2>1, <2>3 DEF Accounted
      <3>2. Queued(t, i) \/ Open(t, replies, i) \/ Acked(out2, i)
        BY <3>1, <1>1, <1>2, <1>4
      <3>3. asked[i].region = "intr" =>
               \/ Queued(t, i)
               \/ \E k \in 1..Len(out2) :
                     out2[k].tag = i /\ out2[k].rq = "int_ret" /\ out2[k].cpu = asked[i].target
        <4> SUFFICES ASSUME asked[i].region = "intr", ~Queued(t, i)
                     PROVE  \E k \in 1..Len(out2) :
                               /\ out2[k].tag = i /\ out2[k].rq = "int_ret"
                               /\ out2[k].cpu = asked[i].target
          OBVIOUS
        <4>1. PICK k \in 1..Len(out) : /\ out[k].tag = i /\ out[k].rq = "int_ret"
                                       /\ out[k].cpu = asked[i].target
          BY <3>1, <1>2
        <4>2. /\ k \in 1..Len(out2) /\ out2[k].tag = out[k].tag /\ out2[k].rq = out[k].rq
              /\ out2[k].cpu = out[k].cpu
          BY DEF Alike
        <4> QED BY <4>1, <4>2
      <3> QED BY <3>2, <3>3
    <2> QED BY <2>3 DEF Accounted
  <1>13. replies \subseteq [where : 0..2, thr : {0}, tag : Nat]
    BY DEF BridgeSound
  <1> QED BY <1>6, <1>7, <1>8, <1>9, <1>10, <1>11, <1>12, <1>13 DEF BridgeSound

(* handle_cpx only ages the head of cpx_list.                              *)
LEMMA HandleCpxFacts ==
    ASSUME NEW s, DOMAIN s = ListFields, s.cpx \in Seq(CpxPackets), s.cpx # <<>>
    PROVE  LET t == handle_cpx(s) IN
           /\ DOMAIN t = ListFields /\ t.mem = s.mem /\ t.heap = s.heap /\ t.pcx = s.pcx
           /\ t.load = s.load /\ t.jload = s.jload /\ t.dev = s.dev /\ t.dram0 = s.dram0
           /\ t.dram1 = s.dram1 /\ t.data = s.data /\ t.spurious = s.spurious
           /\ \E d \in CpxPackets :
                 /\ t.cpx = <<d>> \o Tail(s.cpx)
                 /\ d.cpu = s.cpx[1].cpu /\ d.thr = s.cpx[1].thr /\ d.tag = s.cpx[1].tag
                 /\ d.rq = s.cpx[1].rq /\ d.line = s.cpx[1].line
  <1> DEFINE t == handle_cpx(s)
             f == Head(s.cpx)
             c == [f EXCEPT !.req_wait = Dec(@), !.cpx_wait = Dec(@)]
             asks == c.req_wait = 0 /\ c.sent = 1 /\ s.q[c.cpu] # 2
             d == IF asks THEN [c EXCEPT !.sent = 2, !.cpx_wait = get_req(c.cpx_wait)] ELSE c
  <1>1. f \in CpxPackets /\ f = s.cpx[1]
    BY TailFacts
  <1>2. Dec(f.req_wait) \in Nat /\ Dec(f.cpx_wait) \in Nat
    <2>1. f.req_wait \in Nat /\ f.cpx_wait \in Nat  BY <1>1 DEF CpxPackets
    <2> QED BY <2>1 DEF Dec
  <1>3. /\ c \in CpxPackets /\ c.cpu = f.cpu /\ c.thr = f.thr /\ c.tag = f.tag
        /\ c.rq = f.rq /\ c.line = f.line
    <2> HIDE DEF f
    <2> QED BY <1>1, <1>2 DEF CpxPackets
  <1>4. /\ d \in CpxPackets /\ d.cpu = f.cpu /\ d.thr = f.thr /\ d.tag = f.tag
        /\ d.rq = f.rq /\ d.line = f.line
    <2> DEFINE n == get_req(c.cpx_wait)
    <2> HIDE DEF c, f, asks
    <2>1. n \in Nat
      <3>1. c.cpx_wait \in Nat  BY <1>3 DEF CpxPackets
      <3> QED BY <3>1 DEF get_req
    <2> HIDE DEF n
    <2>2. [c EXCEPT !.sent = 2, !.cpx_wait = n] \in CpxPackets
      BY <1>3, <2>1 DEF CpxPackets
    <2>3. d = IF asks THEN [c EXCEPT !.sent = 2, !.cpx_wait = n] ELSE c  BY DEF n
    <2> HIDE DEF d
    <2> QED BY <1>3, <2>1, <2>2, <2>3 DEF CpxPackets
  <1>5. /\ "cpx" \in DOMAIN s /\ "q" \in DOMAIN s /\ "req" \in DOMAIN s /\ "vld" \in DOMAIN s
    BY DEF ListFields
  <1>6. t.cpx = <<d>> \o Tail(s.cpx)
    BY <1>5 DEF handle_cpx
  <1>7. /\ DOMAIN t = ListFields /\ t.mem = s.mem /\ t.heap = s.heap /\ t.pcx = s.pcx
        /\ t.load = s.load /\ t.jload = s.jload /\ t.dev = s.dev /\ t.dram0 = s.dram0
        /\ t.dram1 = s.dram1 /\ t.data = s.data /\ t.spurious = s.spurious
    BY <1>5 DEF handle_cpx, ListFields
  <1> HIDE DEF t, d
  <1> QED BY <1>1, <1>4, <1>6, <1>7 DEF t

\* A new head of cpx_list changes one packet.
LEMMA AgedAlike ==
    ASSUME NEW S, NEW told \in Seq(S), NEW c \in Seq(S), c # <<>>, NEW d \in S,
           NEW e, e = <<d>> \o Tail(c)
    PROVE  /\ e \in Seq(S) /\ told \o e \in Seq(S) /\ e # <<>> /\ Len(told) \in Nat
           /\ Len(told \o e) = Len(told \o c) /\ (told \o e)[Len(told) + 1] = d
           /\ (told \o c)[Len(told) + 1] = c[1]
           /\ \A k \in 1..Len(told \o c) : k # Len(told) + 1 => (told \o e)[k] = (told \o c)[k]
  OBVIOUS

\* A packet that is driven moves from cpx_list to the wires.
LEMMA DrivenSame ==
    ASSUME NEW S, NEW told \in Seq(S), NEW c \in Seq(S), c # <<>>
    PROVE  /\ Append(told, Head(c)) \o Tail(c) = told \o c
           /\ Append(told, Head(c)) \in Seq(S) /\ Tail(c) \in Seq(S)
  OBVIOUS

(* One call of a driver: the list keeps its packets, less the head once it *)
(* has nothing left; a read that sends its last word is a reply to come.   *)
Reads(list, k) == /\ k \in 1..Len(list)
                  /\ list[k].type = "read" /\ list[k].left > 0
UcbMoved(L, L2, F, w, sh) ==
    /\ L2 \in Seq(UcbPackets)
    /\ \A k \in Nat : Reads(L2, k) <=> Reads(L, k + sh) /\ (F # {} => k + sh # 1)
    /\ \A k \in Nat : Reads(L2, k) => L2[k].tag = L[k + sh].tag
    /\ \A k \in Nat : Reads(L, k) => k - sh \in Nat
    /\ F # {} => Reads(L, 1) /\ F = {[where |-> w, thr |-> 0, tag |-> L[1].tag]}

\* A new head of a list changes nothing behind it.
LEMMA ChangeHead ==
    ASSUME NEW S, NEW q \in Seq(S), q # <<>>, NEW d \in S
    PROVE  LET r == <<d>> \o Tail(q)
           IN  /\ r \in Seq(S) /\ Len(r) = Len(q) /\ Len(q) \in Nat \ {0} /\ r[1] = d
               /\ \A k \in 1..Len(q) : k # 1 => r[k] = q[k]
  OBVIOUS

\* jbi_driver and dram_driver do that to a list.
LEMMA SendMoves ==
    ASSUME NEW L \in Seq(UcbPackets), NEW stall \in BOOLEAN, NEW w
    PROVE  \E sh \in {0, 1} : UcbMoved(L, Sent(L, stall), Finished(L, stall, w), w, sh)
  <1> DEFINE L2 == Sent(L, stall)
             F == Finished(L, stall, w)
             h == Head(L)
             d == IF h.wait = 1 THEN [h EXCEPT !.wait = 0, !.ready = TRUE, !.vld = TRUE] ELSE h
             e == [d EXCEPT !.left = d.left - 1, !.vld = d.left > 1]
  <1>1. CASE L = <<>>
    <2>1. L2 = <<>> /\ F = {}  BY <1>1 DEF Sent, Finished
    <2>2. \A k : ~Reads(<<>>, k)  BY DEF Reads
    <2> HIDE DEF L2, F
    <2>3. UcbMoved(L, L2, F, w, 0)  BY <1>1, <2>1, <2>2 DEF UcbMoved
    <2> QED BY <2>3 DEF L2, F
  <1>2. CASE L # <<>>
    <2>1. /\ h \in UcbPackets /\ h = L[1] /\ 1 \in 1..Len(L) /\ Len(L) \in Nat
          /\ Tail(L) \in Seq(UcbPackets) /\ Len(Tail(L)) = Len(L) - 1
          /\ \A k \in 1..Len(Tail(L)) : k + 1 \in 1..Len(L) /\ Tail(L)[k] = L[k + 1]
      <3>1. /\ Tail(L) \in Seq(UcbPackets) /\ Len(Tail(L)) = Len(L) - 1 /\ Len(L) \in Nat \ {0}
            /\ Head(L) = L[1] /\ L[1] \in UcbPackets
            /\ \A k \in 1..Len(Tail(L)) : k + 1 \in 1..Len(L) /\ Tail(L)[k] = L[k + 1]
        BY <1>2, TailFacts
      <3> QED BY <3>1
    <2>2. /\ UcbWords \in Nat /\ UcbWords > 0 /\ h.left \in 0..UcbWords /\ h.wait \in 0..1
          /\ h.vld \in BOOLEAN /\ h.thr = 0 /\ h.tag \in Nat /\ h.type \in {"read", "write"}
          /\ h.wait = 1 => h.left = UcbWords
          /\ h.wait # 1 => (h.vld <=> h.left > 0)
      BY <2>1, IobAssumption DEF UcbPackets
    <2>3. /\ d \in UcbPackets /\ d.type = h.type /\ d.tag = h.tag /\ d.left = h.left /\ d.thr = 0
          /\ (d.vld <=> d.left > 0) /\ d.wait = 0 /\ d.vld \in BOOLEAN
      <3>1. CASE h.wait = 1
        <4>1. d = [h EXCEPT !.wait = 0, !.ready = TRUE, !.vld = TRUE]  BY <3>1
        <4> HIDE DEF h, d
        <4>2. h \in [type : {"read", "write"}, thr : {0}, tag : Nat, wait : 0..1,
                     ready : BOOLEAN, vld : BOOLEAN, left : 0..UcbWords]
          BY <2>1 DEF UcbPackets
        <4>3. /\ d \in [type : {"read", "write"}, thr : {0}, tag : Nat, wait : 0..1,
                        ready : BOOLEAN, vld : BOOLEAN, left : 0..UcbWords]
              /\ d.type = h.type /\ d.tag = h.tag /\ d.left = h.left /\ d.thr = h.thr
              /\ d.wait = 0 /\ d.vld = TRUE
          <5>1. d \in [type : {"read", "write"}, thr : {0}, tag : Nat, wait : 0..1,
                        ready : BOOLEAN, vld : BOOLEAN, left : 0..UcbWords]
            <6> DEFINE yes == TRUE
                       zero == 0
            <6>1. yes \in BOOLEAN /\ zero \in 0..1  OBVIOUS
            <6>2. d = [h EXCEPT !.wait = zero, !.ready = yes, !.vld = yes]  BY <4>1
            <6> HIDE DEF yes, zero
            <6> QED BY <4>2, <6>1, <6>2
          <5>2. d.type = h.type /\ d.tag = h.tag /\ d.left = h.left /\ d.thr = h.thr /\ d.wait = 0
            BY <4>1, <4>2
          <5>3. DOMAIN h = {"type", "thr", "tag", "wait", "ready", "vld", "left"}  BY <4>2
          <5>4. d.vld = TRUE
            BY <4>1, <5>3
          <5> QED BY <5>1, <5>2, <5>4
        <4>4. d.left > 0 /\ d.thr = 0  BY <4>3, <2>2, <3>1
        <4>5. d.vld <=> d.left > 0  BY <4>3, <4>4, Zenon
        <4>6. d \in UcbPackets  BY <4>3, <4>5 DEF UcbPackets
        <4>7. d.vld \in BOOLEAN  BY <4>3, Zenon
        <4> QED BY <4>3, <4>4, <4>5, <4>6, <4>7
      <3>2. CASE h.wait # 1
        <4>1. d = h  BY <3>2
        <4>2. h.wait = 0  BY <2>2, <3>2
        <4>3. h.vld <=> h.left > 0  BY <2>2, <3>2
        <4> HIDE DEF h, d
        <4>4. /\ d \in UcbPackets /\ d.type = h.type /\ d.tag = h.tag /\ d.left = h.left /\ d.thr = 0
              /\ d.wait = 0 /\ d.vld \in BOOLEAN
          BY <4>1, <4>2, <2>1, <2>2
        <4>5. d.vld <=> d.left > 0  BY <4>1, <4>3, Zenon
        <4> QED BY <4>4, <4>5
      <3> QED BY <3>1, <3>2
    <2>4. d.left > 0 => /\ e \in UcbPackets /\ e.type = h.type /\ e.tag = h.tag /\ e.left = h.left - 1
      <3> SUFFICES ASSUME d.left > 0
                   PROVE  e \in UcbPackets /\ e.type = h.type /\ e.tag = h.tag /\ e.left = h.left - 1
        OBVIOUS
      <3> HIDE DEF h, d
      <3> DEFINE v == d.left > 1
                 n == d.left - 1
      <3>1. n \in 0..UcbWords /\ v \in BOOLEAN /\ n = h.left - 1  BY <2>2, <2>3
      <3>2. v <=> n > 0  BY <2>2, <2>3
      <3> HIDE DEF v, n, e
      <3>3. e = [d EXCEPT !.left = n, !.vld = v]  BY DEF e, v, n
      <3>4. /\ e \in [type : {"read", "write"}, thr : {0}, tag : Nat, wait : 0..1,
                       ready : BOOLEAN, vld : BOOLEAN, left : 0..UcbWords]
            /\ e.wait = d.wait /\ e.vld = v /\ e.left = n /\ e.type = d.type /\ e.tag = d.tag
        BY <2>3, <3>1, <3>3 DEF UcbPackets
      <3>5. e \in UcbPackets
        <4>1. e.wait = 0  BY <2>3, <3>4
        <4>2. e.vld <=> e.left > 0  BY <3>2, <3>4
        <4> QED BY <3>4, <4>1, <4>2 DEF UcbPackets
      <3> QED BY <2>3, <3>1, <3>4, <3>5
    <2>5. L2 = IF stall THEN <<d>> \o Tail(L)
               ELSE IF ~d.vld THEN Tail(L) ELSE <<e>> \o Tail(L)
      BY <1>2 DEF Sent
    <2>6. F = IF ~stall /\ h.left = 1 /\ h.type = "read"
              THEN {[where |-> w, thr |-> h.thr, tag |-> h.tag]} ELSE {}
      BY <1>2 DEF Finished
    <2> HIDE DEF L2, F, h, d, e
    <2>7. ASSUME NEW x \in UcbPackets, L2 = <<x>> \o Tail(L), x.type = h.type, x.tag = h.tag,
                 x.left \in Nat,
                 F = {} => (h.type = "read" => (x.left > 0 <=> h.left > 0)),
                 F # {} => /\ x.left = 0 /\ h.left > 0 /\ h.type = "read"
                           /\ F = {[where |-> w, thr |-> 0, tag |-> h.tag]}
          PROVE  UcbMoved(L, L2, F, w, 0)
      <3>1. /\ L2 \in Seq(UcbPackets) /\ Len(L2) = Len(L) /\ L2[1] = x
            /\ \A k \in 1..Len(L) : k # 1 => L2[k] = L[k]
        BY <1>2, <2>7, ChangeHead
      <3>2. Reads(L2, 1) <=> Reads(L, 1) /\ F = {}
        BY <2>1, <2>2, <2>7, <3>1 DEF Reads
      <3>3. \A k : k # 1 => (Reads(L2, k) <=> Reads(L, k)) /\ (Reads(L2, k) => L2[k] = L[k])
        BY <3>1 DEF Reads
      <3>4. \A k \in Nat : k + 0 = k /\ k - 0 = k  OBVIOUS
      <3>5. L2[1].tag = L[1].tag  BY <3>1, <2>7, <2>1
      <3>6. F # {} => Reads(L, 1) /\ F = {[where |-> w, thr |-> 0, tag |-> L[1].tag]}
        BY <2>1, <2>7 DEF Reads
      <3> QED BY <3>1, <3>2, <3>3, <3>4, <3>5, <3>6 DEF UcbMoved
    <2>8. CASE stall
      <3>1. L2 = <<d>> \o Tail(L) /\ F = {} /\ d.left \in Nat  BY <2>2, <2>3, <2>5, <2>6, <2>8
      <3>2. UcbMoved(L, L2, F, w, 0)  BY <2>3, <2>7, <3>1
      <3> QED BY <3>2 DEF L2, F
    <2>9. CASE ~stall /\ ~d.vld
      <3>1. L2 = Tail(L) /\ F = {} /\ h.left = 0  BY <2>2, <2>3, <2>5, <2>6, <2>9
      <3>2. \A k \in Nat : k \in 1..Len(L2) <=> k + 1 \in 1..Len(L) /\ k + 1 # 1
        BY <2>1, <3>1
      <3>3. ~Reads(L, 1)  BY <2>1, <3>1 DEF Reads
      <3>4. \A k \in 1..Len(L2) : L2[k] = L[k + 1]  BY <2>1, <3>1
      <3>5. \A k \in Nat : Reads(L2, k) <=> Reads(L, k + 1)
        <4> SUFFICES ASSUME NEW k \in Nat PROVE Reads(L2, k) <=> Reads(L, k + 1)
          OBVIOUS
        <4>1. CASE k = 0
          <5>1. k + 1 = 1 /\ k \notin 1..Len(L2)  BY <4>1
          <5> QED BY <5>1, <3>3 DEF Reads
        <4>2. CASE k # 0
          BY <4>2, <3>2, <3>4 DEF Reads
        <4> QED BY <4>1, <4>2
      <3>6. \A k \in Nat : Reads(L2, k) => L2[k].tag = L[k + 1].tag
        BY <3>4 DEF Reads
      <3>7. \A k \in Nat : Reads(L, k) => k - 1 \in Nat
        BY <2>1 DEF Reads
      <3>8. L2 \in Seq(UcbPackets)  BY <2>1, <3>1
      <3>9. UcbMoved(L, L2, F, w, 1)  BY <3>1, <3>5, <3>6, <3>7, <3>8 DEF UcbMoved
      <3> QED BY <3>9 DEF L2, F
    <2>10. CASE ~stall /\ d.vld
      <3>1. L2 = <<e>> \o Tail(L) /\ h.left > 0 /\ d.left > 0  BY <2>3, <2>5, <2>10
      <3>2. /\ e \in UcbPackets /\ e.type = h.type /\ e.tag = h.tag /\ e.left = h.left - 1
            /\ h.left \in Nat
        BY <2>2, <2>4, <3>1
      <3>3. F # {} <=> h.left = 1 /\ h.type = "read"  BY <2>6, <2>10
      <3>4. F # {} => F = {[where |-> w, thr |-> 0, tag |-> h.tag]}  BY <2>2, <2>6
      <3>5. e.left \in Nat  BY <3>1, <3>2
      <3>6. F = {} => (h.type = "read" => (e.left > 0 <=> h.left > 0))  BY <3>1, <3>2, <3>3
      <3>7. F # {} => e.left = 0 /\ h.left > 0 /\ h.type = "read"  BY <3>1, <3>2, <3>3
      <3>8. UcbMoved(L, L2, F, w, 0)  BY <2>7, <3>1, <3>2, <3>4, <3>5, <3>6, <3>7
      <3> QED BY <3>8 DEF L2, F
    <2> QED BY <2>8, <2>9, <2>10
  <1> QED BY <1>1, <1>2

(* A call of the drivers: a load that is no longer being sent is a reply   *)
(* its device has to give.                                                 *)
SendStep(s, t, F, sh, replies, replies2) ==
    /\ DOMAIN t = ListFields /\ t.mem = s.mem /\ t.heap = s.heap /\ t.pcx = s.pcx
    /\ t.load = s.load /\ t.jload = s.jload /\ t.data = s.data /\ t.cpx = s.cpx
    /\ \A w \in 0..2 : UcbMoved(Sending(s, w), Sending(t, w), F[w], w, sh[w]) /\ sh[w] \in {0, 1}
    /\ \A r : r \in replies2 <=> r \in replies \/ \E w \in 0..2 : r \in F[w]

\* A call of the drivers loses no load.
LEMMA SendKeeps ==
    ASSUME NEW s, NEW asked, NEW replies, NEW out, BridgeSound(s, asked, replies, out),
           NEW t, NEW F, NEW sh, NEW replies2, SendStep(s, t, F, sh, replies, replies2)
    PROVE  BridgeSound(t, asked, replies2, out)
  <1>1. /\ \A w : Loading(t, w) = Loading(s, w)
        /\ \A i : Queued(t, i) <=> Queued(s, i)
    BY DEF SendStep, Loading, Queued
  <1>2. ASSUME NEW w \in 0..2
        PROVE  /\ Sending(t, w) \in Seq(UcbPackets)
               /\ \A k \in Nat : Live(t, w, k) <=> Live(s, w, k + sh[w]) /\ (F[w] # {} => k + sh[w] # 1)
               /\ \A k \in Nat : Live(t, w, k) => Sending(t, w)[k].tag = Sending(s, w)[k + sh[w]].tag
               /\ \A k \in Nat : Live(s, w, k) => k - sh[w] \in Nat
               /\ F[w] # {} => /\ Live(s, w, 1)
                               /\ F[w] = {[where |-> w, thr |-> 0, tag |-> Sending(s, w)[1].tag]}
               /\ sh[w] \in {0, 1}
    <2>1. UcbMoved(Sending(s, w), Sending(t, w), F[w], w, sh[w]) /\ sh[w] \in {0, 1}
      BY DEF SendStep
    <2>2. \A x, k : (Live(s, x, k) <=> Reads(Sending(s, x), k)) /\ (Live(t, x, k) <=> Reads(Sending(t, x), k))
      BY DEF Live, Reads
    <2> QED BY <2>1, <2>2 DEF UcbMoved
  <1>3. /\ \A w \in 0..2 : \A k : Live(t, w, k) => k \in Nat
        /\ \A w \in 0..2 : \A k : Live(s, w, k) => k \in Nat
    <2>1. \A w \in 0..2 : Sending(s, w) \in Seq(UcbPackets)
      BY DEF BridgeSound, IsLists, Sending
    <2>2. \A w \in 0..2 : Len(Sending(s, w)) \in Nat /\ Len(Sending(t, w)) \in Nat
      BY <2>1, <1>2, ElementFacts
    <2> QED BY <2>2 DEF Live
  <1>4. \A w, i : Expected(s, asked, out, w, i) => Expected(t, asked, out, w, i)
    BY <1>1 DEF Expected, SendStep
  <1>5. AtDevice(s, asked, replies, out)  BY DEF BridgeSound
  <1>6. /\ \A w \in 0..2 : \A k \in 1..Len(Sending(s, w)) : Live(s, w, k) =>
              /\ Expected(s, asked, out, w, Sending(s, w)[k].tag)
              /\ \A l \in 1..Len(Sending(s, w)) :
                    Live(s, w, l) /\ Sending(s, w)[l].tag = Sending(s, w)[k].tag => l = k
              /\ \A r \in replies : r.tag # Sending(s, w)[k].tag
        /\ \A r \in replies : Expected(s, asked, out, r.where, r.tag)
    BY <1>5 DEF AtDevice
  <1>6a. \A w, k : (Live(s, w, k) => k \in 1..Len(Sending(s, w))) /\ (Live(t, w, k) => k \in 1..Len(Sending(t, w)))
    BY DEF Live
  <1>7. \A x, w, i : Expected(s, asked, out, w, i) /\ Expected(s, asked, out, x, i) => w = x
    BY DEF Expected
  <1>8. ASSUME NEW r \in replies2
        PROVE  \/ r \in replies
               \/ \E w \in 0..2 : /\ F[w] # {} /\ Live(s, w, 1) /\ r.where = w
                                  /\ r.tag = Sending(s, w)[1].tag
                                  /\ r = [where |-> w, thr |-> 0, tag |-> Sending(s, w)[1].tag]
    <2>1. r \in replies \/ \E w \in 0..2 : r \in F[w]  BY <1>8 DEF SendStep
    <2> QED BY <2>1, <1>2
  <1>9. AtDevice(t, asked, replies2, out)
    <2>1. ASSUME NEW r \in replies2 PROVE Expected(t, asked, out, r.where, r.tag)
      <3>1. Expected(s, asked, out, r.where, r.tag)
        BY <1>8, <1>6, <1>6a
      <3> QED BY <3>1, <1>4
    <2>2. ASSUME NEW w \in 0..2, NEW k \in 1..Len(Sending(t, w)), Live(t, w, k)
          PROVE  /\ Expected(t, asked, out, w, Sending(t, w)[k].tag)
                 /\ \A l \in 1..Len(Sending(t, w)) :
                       Live(t, w, l) /\ Sending(t, w)[l].tag = Sending(t, w)[k].tag => l = k
                 /\ \A r \in replies2 : r.tag # Sending(t, w)[k].tag
      <3> DEFINE j == k + sh[w]
                 i == Sending(t, w)[k].tag
      <3>1. /\ Live(s, w, j) /\ i = Sending(s, w)[j].tag /\ j \in 1..Len(Sending(s, w))
            /\ F[w] # {} => j # 1
        BY <2>2, <1>2, <1>3, <1>6a
      <3>2. Expected(s, asked, out, w, i)  BY <3>1, <1>6
      <3>3. ASSUME NEW l \in 1..Len(Sending(t, w)), Live(t, w, l), Sending(t, w)[l].tag = i PROVE l = k
        <4>1. l \in Nat /\ k \in Nat /\ sh[w] \in {0, 1}  BY <1>2, <1>3, <2>2, <3>3
        <4>2. /\ Live(s, w, l + sh[w]) /\ Sending(s, w)[l + sh[w]].tag = i
              /\ l + sh[w] \in 1..Len(Sending(s, w))
          BY <4>1, <3>3, <1>2, <1>6a
        <4>3. l + sh[w] = j  BY <4>2, <3>1, <1>6
        <4> QED BY <4>1, <4>3
      <3>4. ASSUME NEW r \in replies2, r.tag = i PROVE FALSE
        <4>1. CASE r \in replies
          BY <4>1, <3>1, <3>4, <1>6
        <4>2. CASE \E x \in 0..2 : F[x] # {} /\ Live(s, x, 1) /\ r.tag = Sending(s, x)[1].tag
          <5>1. PICK x \in 0..2 : F[x] # {} /\ Live(s, x, 1) /\ r.tag = Sending(s, x)[1].tag  BY <4>2
          <5>2. Expected(s, asked, out, x, i) /\ 1 \in 1..Len(Sending(s, x))  BY <5>1, <3>4, <1>6, <1>6a
          <5>3. x = w  BY <5>2, <3>2, <1>7
          <5>4. 1 = j  BY <5>1, <5>2, <5>3, <3>1, <3>4, <1>6
          <5> QED BY <5>1, <5>3, <5>4, <3>1
        <4> QED BY <4>1, <4>2, <1>8
      <3> QED BY <3>2, <3>3, <3>4, <1>4
    <2> QED BY <2>1, <2>2 DEF AtDevice
  <1>10. ASSUME NEW i, Open(s, replies, i) PROVE Open(t, replies2, i)
    <2>1. CASE \E r \in replies : r.tag = i
      BY <2>1 DEF Open, SendStep
    <2>2. CASE \E w \in 0..2 : \E k \in 1..Len(Sending(s, w)) : Live(s, w, k) /\ Sending(s, w)[k].tag = i
      <3>0. PICK w \in 0..2 : \E k \in 1..Len(Sending(s, w)) : Live(s, w, k) /\ Sending(s, w)[k].tag = i
        BY <2>2
      <3>1. PICK k \in 1..Len(Sending(s, w)) : Live(s, w, k) /\ Sending(s, w)[k].tag = i
        BY <3>0
      <3>2. k \in Nat  BY <3>1, <1>3
      <3>3. CASE F[w] # {} /\ k = 1
        <4>1. [where |-> w, thr |-> 0, tag |-> i] \in F[w]  BY <3>1, <3>3, <1>2
        <4>2. [where |-> w, thr |-> 0, tag |-> i] \in replies2  BY <4>1 DEF SendStep
        <4> QED BY <4>2 DEF Open
      <3>4. CASE ~(F[w] # {} /\ k = 1)
        <4> DEFINE l == k - sh[w]
        <4>1. l \in Nat /\ l + sh[w] = k  BY <3>1, <3>2, <1>2
        <4> HIDE DEF l
        <4>2. Live(t, w, l) /\ Sending(t, w)[l].tag = i  BY <4>1, <3>1, <3>4, <1>2
        <4>3. l \in 1..Len(Sending(t, w))  BY <4>2, <1>6a
        <4> QED BY <4>2, <4>3 DEF Open
      <3> QED BY <3>3, <3>4
    <2> QED BY <2>1, <2>2, <1>10 DEF Open
  <1>11. Accounted(t, asked, replies2, out)
    <2>1. Accounted(s, asked, replies, out)  BY DEF BridgeSound
    <2> QED BY <2>1, <1>1, <1>10 DEF Accounted
  <1>12. IsLists(t)
    <2>1. t.dev = Sending(t, 2) /\ t.dram0 = Sending(t, 0) /\ t.dram1 = Sending(t, 1)
      BY DEF Sending
    <2>2. t.dev \in Seq(UcbPackets) /\ t.dram0 \in Seq(UcbPackets) /\ t.dram1 \in Seq(UcbPackets)
      BY <2>1, <1>2
    <2>3. IsLists(s)  BY DEF BridgeSound
    <2> QED BY <2>2, <2>3 DEF IsLists, SendStep
  <1>13. replies2 \subseteq [where : 0..2, thr : {0}, tag : Nat]
    <2>1. replies \subseteq [where : 0..2, thr : {0}, tag : Nat]  BY DEF BridgeSound
    <2>2. \A w \in 0..2 : Live(s, w, 1) => Sending(s, w)[1].tag \in Nat
      <3> SUFFICES ASSUME NEW w \in 0..2, Live(s, w, 1) PROVE Sending(s, w)[1].tag \in Nat
        OBVIOUS
      <3>1. Sending(s, w) \in Seq(UcbPackets)
        BY DEF BridgeSound, IsLists, Sending
      <3>2. Sending(s, w)[1] \in UcbPackets  BY <3>1, <1>6a, ElementFacts
      <3> QED BY <3>2 DEF UcbPackets
    <2> QED BY <2>1, <2>2, <1>8
  <1>14. Objects(t) /\ InQueue(t, asked, out)
    BY DEF BridgeSound, Objects, InQueue, SendStep
  <1>15. Loaded(t, asked)
    <2>1. Loaded(s, asked)  BY DEF BridgeSound
    <2> QED BY <2>1, <1>1 DEF Loaded
  <1>16. Answered(asked, out) /\ out \in Seq(CpxPackets)
    BY DEF BridgeSound
  <1> QED BY <1>9, <1>11, <1>12, <1>13, <1>14, <1>15, <1>16 DEF BridgeSound

(* A reply of a device answers the load at the head of its thread's list.  *)
ReplyStep(s, t, asked, replies, r, out, ans) ==
    /\ DOMAIN t = ListFields /\ t.mem = s.mem /\ t.pcx = s.pcx
    /\ t.load = s.load /\ t.jload = s.jload /\ t.data = s.data
    /\ t.dev = s.dev /\ t.dram0 = s.dram0 /\ t.dram1 = s.dram1
    /\ t.heap = Append(s.heap, Loading(s, r.where)[1]) /\ t.cpx \in Seq(CpxPackets)
    /\ r \in replies /\ ans \in CpxPackets
    /\ ans.tag = r.tag /\ ans.rq # "int_ret" /\ Matches(asked[r.tag], ans)

\* A reply is answered once, and its object is free from then on.
LEMMA ReplyKeeps ==
    ASSUME NEW s, NEW asked, NEW replies, NEW out, BridgeSound(s, asked, replies, out),
           NEW t, NEW r, NEW ans, ReplyStep(s, t, asked, replies, r, out, ans)
    PROVE  BridgeSound(t, asked, replies \ {r}, Append(out, ans))
  <1> DEFINE out2 == Append(out, ans)
             id == Loading(s, r.where)[1]
             left == replies \ {r}
  <1>1. /\ out2 \in Seq(CpxPackets) /\ Len(out) \in Nat /\ out2[Len(out) + 1] = ans
        /\ \A k \in 1..Len(out) : out2[k] = out[k]
        /\ \A k : k \in 1..Len(out2) <=> (k \in 1..Len(out) \/ k = Len(out) + 1)
    <2>1. out \in Seq(CpxPackets) /\ ans \in CpxPackets  BY DEF BridgeSound, ReplyStep
    <2> QED BY <2>1, AppendFacts
  <1> HIDE DEF out2
  <1>2. /\ \A w : Sending(t, w) = Sending(s, w) /\ Loading(t, w) = Loading(s, w)
        /\ \A i : Queued(t, i) <=> Queued(s, i)
    BY DEF ReplyStep, Sending, Loading, Queued
  <1>3. \A w, k : Live(t, w, k) <=> Live(s, w, k)
    BY <1>2 DEF Live
  <1>4. \A i : Acked(out2, i) <=> Acked(out, i) \/ i = r.tag
    <2>1. ans.tag = r.tag /\ ans.rq # "int_ret"  BY DEF ReplyStep
    <2> QED BY <1>1, <2>1 DEF Acked
  <1>5. AtDevice(s, asked, replies, out) /\ r \in replies  BY DEF BridgeSound, ReplyStep
  <1>6. Expected(s, asked, out, r.where, r.tag)  BY <1>5 DEF AtDevice
  <1>7. /\ \A k \in 1..Len(s.pcx) : s.pcx[k] # id
        /\ \A k \in 1..Len(s.heap) : s.heap[k] # id
        /\ s.mem[id].tag = r.tag /\ Loading(s, r.where) # <<>>
        /\ ~Queued(s, r.tag) /\ ~Acked(out, r.tag)
    BY <1>6 DEF Expected
  <1>8. s.mem \in Seq(Packets) /\ s.heap \in Seq(1..Len(s.mem)) /\ id \in 1..Len(s.mem)
    <2>1. s.mem \in Seq(Packets) /\ s.heap \in Seq(1..Len(s.mem))  BY DEF BridgeSound, IsLists
    <2>2. r.where \in 0..2  BY <1>5 DEF BridgeSound
    <2>3. Loading(s, r.where) \in Seq(1..Len(s.mem))
      BY <2>2 DEF BridgeSound, IsLists, Loading
    <2>4. id \in 1..Len(s.mem)  BY <2>3, <1>7, TailFacts
    <2> QED BY <2>1, <2>4
  <1>9. /\ t.heap \in Seq(1..Len(s.mem)) /\ Len(s.heap) \in Nat /\ t.heap[Len(s.heap) + 1] = id
        /\ \A k \in 1..Len(s.heap) : t.heap[k] = s.heap[k]
        /\ \A k : k \in 1..Len(t.heap) <=> (k \in 1..Len(s.heap) \/ k = Len(s.heap) + 1)
    <2>1. t.heap = Append(s.heap, id)  BY DEF ReplyStep
    <2> HIDE DEF id
    <2> QED BY <2>1, <1>8, AppendFacts
  <1>10. IsLists(t)
    <2>1. IsLists(s)  BY DEF BridgeSound
    <2> QED BY <2>1, <1>9 DEF IsLists, ReplyStep
  <1>11. Objects(t)
    <2>1. Objects(s) /\ t.pcx = s.pcx  BY DEF BridgeSound, ReplyStep
    <2>2. ASSUME NEW j \in 1..Len(t.heap), NEW k \in 1..Len(t.heap), t.heap[j] = t.heap[k] PROVE j = k
      <3>1. CASE j \in 1..Len(s.heap) /\ k \in 1..Len(s.heap)
        BY <3>1, <2>1, <2>2, <1>9 DEF Objects
      <3>2. CASE j = Len(s.heap) + 1 /\ k = Len(s.heap) + 1
        BY <3>2
      <3>3. CASE j = Len(s.heap) + 1 /\ k \in 1..Len(s.heap)
        BY <3>3, <2>2, <1>7, <1>9
      <3>4. CASE k = Len(s.heap) + 1 /\ j \in 1..Len(s.heap)
        BY <3>4, <2>2, <1>7, <1>9
      <3> QED BY <3>1, <3>2, <3>3, <3>4, <1>9
    <2>3. \A j \in 1..Len(t.pcx), k \in 1..Len(t.heap) : t.pcx[j] # t.heap[k]
      <3>1. \A j \in 1..Len(s.pcx), k \in 1..Len(s.heap) : s.pcx[j] # s.heap[k]  BY <2>1 DEF Objects
      <3> SUFFICES ASSUME NEW j \in 1..Len(t.pcx), NEW k \in 1..Len(t.heap) PROVE t.pcx[j] # t.heap[k]
        OBVIOUS
      <3>2. s.pcx[j] # id /\ t.pcx[j] = s.pcx[j] /\ j \in 1..Len(s.pcx)  BY <2>1, <1>7
      <3>3. CASE k \in 1..Len(s.heap)
        BY <3>1, <3>2, <3>3, <1>9
      <3>4. CASE k = Len(s.heap) + 1
        <4> HIDE DEF id
        <4> QED BY <3>2, <3>4, <1>9
      <3> QED BY <3>3, <3>4, <1>9
    <2>4. \A j, k \in 1..Len(t.pcx) : t.pcx[j] = t.pcx[k] => j = k  BY <2>1 DEF Objects
    <2> QED BY <2>2, <2>3, <2>4 DEF Objects
  <1>12. InQueue(t, asked, out2)
    <2>1. InQueue(s, asked, out) /\ t.mem = s.mem /\ t.pcx = s.pcx  BY DEF BridgeSound, ReplyStep
    <2>2. \A k \in 1..Len(s.pcx) : s.mem[s.pcx[k]].tag # r.tag  BY <1>7 DEF Queued
    <2> QED BY <2>1, <2>2, <1>4 DEF InQueue
  <1>13. \A w, i : Expected(s, asked, out, w, i) /\ i # r.tag => Expected(t, asked, out2, w, i)
    <2> SUFFICES ASSUME NEW w, NEW i, Expected(s, asked, out, w, i), i # r.tag
                 PROVE  Expected(t, asked, out2, w, i)
      OBVIOUS
    <2>1. /\ IsRequest(asked, i) /\ IoLoad(asked[i]) /\ PortOf(asked[i].region) = w
          /\ ~Queued(s, i) /\ ~Acked(out, i) /\ Loading(s, w) # <<>>
          /\ \A k \in 1..Len(s.pcx) : s.pcx[k] # Loading(s, w)[1]
          /\ \A k \in 1..Len(s.heap) : s.heap[k] # Loading(s, w)[1]
          /\ s.mem[Loading(s, w)[1]].tag = i /\ Fits(asked, s.mem[Loading(s, w)[1]])
      BY DEF Expected
    <2>2. Loading(s, w)[1] # id  BY <2>1, <1>7
    <2>3. \A k \in 1..Len(t.heap) : t.heap[k] # Loading(s, w)[1]
      <3> HIDE DEF id
      <3> QED BY <2>1, <2>2, <1>9
    <2>4. t.mem = s.mem /\ t.pcx = s.pcx  BY DEF ReplyStep
    <2> QED BY <2>1, <2>3, <2>4, <1>2, <1>4 DEF Expected
  <1>14. \A q \in left : q.tag # r.tag
    <2> SUFFICES ASSUME NEW q \in left, q.tag = r.tag PROVE FALSE
      OBVIOUS
    <2>1. Expected(s, asked, out, q.where, q.tag)  BY <1>5 DEF AtDevice
    <2>2. q.where = r.where  BY <2>1, <1>6 DEF Expected
    <2>3. /\ q \in [where : 0..2, thr : {0}, tag : Nat] /\ r \in [where : 0..2, thr : {0}, tag : Nat]
          /\ q # r
      BY <1>5 DEF BridgeSound
    <2> QED BY <2>2, <2>3
  <1>15. AtDevice(t, asked, left, out2)
    <2>1. \A q \in left : Expected(t, asked, out2, q.where, q.tag)
      BY <1>5, <1>13, <1>14 DEF AtDevice
    <2>2. ASSUME NEW w \in 0..2, NEW k \in 1..Len(Sending(s, w)), Live(s, w, k)
          PROVE  /\ Expected(t, asked, out2, w, Sending(s, w)[k].tag)
                 /\ \A l \in 1..Len(Sending(s, w)) :
                       Live(s, w, l) /\ Sending(s, w)[l].tag = Sending(s, w)[k].tag => l = k
                 /\ \A q \in left : q.tag # Sending(s, w)[k].tag
      <3>1. /\ Expected(s, asked, out, w, Sending(s, w)[k].tag)
            /\ \A l \in 1..Len(Sending(s, w)) :
                  Live(s, w, l) /\ Sending(s, w)[l].tag = Sending(s, w)[k].tag => l = k
            /\ \A q \in replies : q.tag # Sending(s, w)[k].tag
        BY <1>5, <2>2 DEF AtDevice
      <3>2. Sending(s, w)[k].tag # r.tag  BY <3>1, <1>5
      <3> QED BY <3>1, <3>2, <1>13
    <2> QED BY <2>1, <2>2, <1>2, <1>3 DEF AtDevice
  <1>16. Loaded(t, asked)
    <2>1. Loaded(s, asked)  BY DEF BridgeSound
    <2> QED BY <2>1, <1>2 DEF Loaded
  <1>17. Answered(asked, out2)
    <2>1. Answered(asked, out) /\ ~Acked(out, r.tag)  BY <1>7 DEF BridgeSound
    <2>2. ans.tag = r.tag /\ IsRequest(asked, r.tag) /\ Matches(asked[r.tag], ans)
      BY <1>6 DEF Expected, ReplyStep
    <2>3. \A k \in 1..Len(out) : out[k].rq # "int_ret" => out[k].tag # r.tag
      BY <2>1 DEF Acked
    <2>4. \A k \in 1..Len(out2) : out2[k].rq # "int_ret" =>
             IsRequest(asked, out2[k].tag) /\ Matches(asked[out2[k].tag], out2[k])
      <3>1. \A k \in 1..Len(out) : out[k].rq # "int_ret" =>
               IsRequest(asked, out[k].tag) /\ Matches(asked[out[k].tag], out[k])
        BY <2>1 DEF Answered
      <3> QED BY <3>1, <2>2, <1>1
    <2>5. ASSUME NEW j \in 1..Len(out2), NEW k \in 1..Len(out2), out2[j].rq # "int_ret",
                 out2[k].rq # "int_ret", out2[j].tag = out2[k].tag
          PROVE  j = k
      <3>1. CASE j \in 1..Len(out) /\ k \in 1..Len(out)
        BY <3>1, <2>1, <2>5, <1>1 DEF Answered
      <3>2. CASE j = Len(out) + 1 /\ k = Len(out) + 1
        BY <3>2
      <3>3. CASE j = Len(out) + 1 /\ k \in 1..Len(out)
        BY <3>3, <2>2, <2>3, <2>5, <1>1
      <3>4. CASE k = Len(out) + 1 /\ j \in 1..Len(out)
        BY <3>4, <2>2, <2>3, <2>5, <1>1
      <3> QED BY <3>1, <3>2, <3>3, <3>4, <1>1
    <2> QED BY <2>4, <2>5 DEF Answered
  <1>18. Accounted(t, asked, left, out2)
    <2>1. Accounted(s, asked, replies, out)  BY DEF BridgeSound
    <2>2. \A i : Open(s, replies, i) => Open(t, left, i) \/ i = r.tag
      <3> SUFFICES ASSUME NEW i, Open(s, replies, i), i # r.tag PROVE Open(t, left, i)
        OBVIOUS
      <3>1. CASE \E q \in replies : q.tag = i
        BY <3>1 DEF Open
      <3>2. CASE \E w \in 0..2 : \E k \in 1..Len(Sending(s, w)) : Live(s, w, k) /\ Sending(s, w)[k].tag = i
        BY <3>2, <1>2, <1>3 DEF Open
      <3> QED BY <3>1, <3>2 DEF Open
    <2>3. ASSUME NEW i, NEW c, NEW k \in 1..Len(out), out[k].tag = i, out[k].rq = "int_ret", out[k].cpu = c
          PROVE  \E l \in 1..Len(out2) : out2[l].tag = i /\ out2[l].rq = "int_ret" /\ out2[l].cpu = c
      <3>1. k \in 1..Len(out2) /\ out2[k] = out[k]  BY <1>1
      <3> QED BY <3>1, <2>3
    <2>4. ASSUME NEW i \in 1..Len(asked), asked[i] # Event
          PROVE  /\ Queued(t, i) \/ Open(t, left, i) \/ Acked(out2, i)
                 /\ asked[i].region = "intr" =>
                       \/ Queued(t, i)
                       \/ \E k \in 1..Len(out2) :
                             out2[k].tag = i /\ out2[k].rq = "int_ret" /\ out2[k].cpu = asked[i].target
      <3>1. /\ Queued(s, i) \/ Open(s, replies, i) \/ Acked(out, i)
            /\ asked[i].region = "intr" =>
                  \/ Queued(s, i)
                  \/ \E k \in 1..Len(out) :
                        out[k].tag = i /\ out[k].rq = "int_ret" /\ out[k].cpu = asked[i].target
        BY <2>1, <2>4 DEF Accounted
      <3>2. Queued(t, i) \/ Open(t, left, i) \/ Acked(out2, i)
        BY <3>1, <2>2, <1>2, <1>4
      <3>3. asked[i].region = "intr" =>
               \/ Queued(t, i)
               \/ \E k \in 1..Len(out2) :
                     out2[k].tag = i /\ out2[k].rq = "int_ret" /\ out2[k].cpu = asked[i].target
        <4> SUFFICES ASSUME asked[i].region = "intr", ~Queued(t, i)
                     PROVE  \E k \in 1..Len(out2) :
                               /\ out2[k].tag = i /\ out2[k].rq = "int_ret"
                               /\ out2[k].cpu = asked[i].target
          OBVIOUS
        <4>1. PICK k \in 1..Len(out) : /\ out[k].tag = i /\ out[k].rq = "int_ret"
                                       /\ out[k].cpu = asked[i].target
          BY <3>1, <1>2
        <4> QED BY <4>1, <2>3
      <3> QED BY <3>2, <3>3
    <2> QED BY <2>4 DEF Accounted
  <1>19. left \subseteq [where : 0..2, thr : {0}, tag : Nat]
    BY DEF BridgeSound
  <1>20. BridgeSound(t, asked, left, out2)
    BY <1>1, <1>10, <1>11, <1>12, <1>15, <1>16, <1>17, <1>18, <1>19 DEF BridgeSound
  <1> QED BY <1>20 DEF out2

-----------------------------------------------------------------------------
LEMMA AllocateFacts ==
    ASSUME NEW mem \in Seq(Packets), NEW heap \in Seq(1..Len(mem)), NEW a \in Allocate(mem, heap)
    PROVE  /\ \/ heap = <<>> /\ a[1] = Len(mem) + 1 /\ a[3] = <<>>
              \/ heap # <<>> /\ a[1] = Head(heap) /\ a[3] = Tail(heap)
           /\ a[2].region \in IobRegions /\ a[2].line \in IobLines
  <1>1. CASE heap = <<>>
    <2>1. PICK old \in Blank : a = <<Len(mem) + 1, old, heap>>  BY <1>1 DEF Allocate
    <2>2. old.region \in IobRegions /\ old.line \in IobLines
      BY DEF Blank, IobRegions, IobLines
    <2> QED BY <1>1, <2>1, <2>2
  <1>2. CASE heap # <<>>
    <2>1. a = <<Head(heap), mem[Head(heap)], Tail(heap)>>  BY <1>2 DEF Allocate
    <2>2. Head(heap) \in 1..Len(mem)  BY <1>2, TailFacts
    <2>3. mem[Head(heap)] \in Packets  BY <2>2, ElementFacts
    <2>4. mem[Head(heap)].region \in IobRegions /\ mem[Head(heap)].line \in IobLines
      BY <2>3 DEF Packets
    <2> QED BY <1>2, <2>1, <2>4
  <1> QED BY <1>1, <1>2

WithRequest(asked, m) == asked \o (IF m.rq = "nothing" THEN <<>> ELSE <<m>>)
WithEvent(asked, targets) == asked \o (IF targets = {} THEN <<>> ELSE <<Event>>)

TakenIn(s, t, asked, replies, out) ==
    /\ asked \in Seq(IobMenu \cup {Event}) /\ BridgeSound(t, asked, replies, out)
    /\ t.cpx = s.cpx /\ t.vld = s.vld

LEMMA OneOrNone ==
    ASSUME NEW S
    PROVE  <<>> \in Seq(S) /\ \A e \in S : <<e>> \in Seq(S)
  OBVIOUS

\* read_pcx keeps the invariant.
LEMMA ReadKeeps ==
    ASSUME NEW s, NEW asked \in Seq(IobMenu \cup {Event}), NEW replies, NEW out,
           BridgeSound(s, asked, replies, out), NEW m \in IobMenu \cup {None},
           NEW t \in read_pcx(s, m, Len(asked) + 1)
    PROVE  TakenIn(s, t, WithRequest(asked, m), replies, out)
  <1>1. CASE m.rq = "nothing"
    <2>1. t = s  BY <1>1 DEF read_pcx
    <2>2. asked \o <<>> = asked  OBVIOUS
    <2> QED BY <1>1, <2>1, <2>2 DEF WithRequest, TakenIn
  <1>2. CASE m.rq # "nothing"
    <2>1. m \in IobMenu  BY <1>2 DEF None
    <2>2. m \in BridgeRequests  BY <2>1, MenuFacts
    <2>3. m # Event  BY <2>2 DEF BridgeRequests, Event
    <2>4. IsLists(s)  BY DEF BridgeSound
    <2>5. s.mem \in Seq(Packets) /\ s.heap \in Seq(1..Len(s.mem)) /\ DOMAIN s = ListFields
      BY <2>4 DEF IsLists
    <2> DEFINE p == chop_pkt(m, Len(asked) + 1)
    <2>6. PICK a \in Allocate(s.mem, s.heap) :
             t = [s EXCEPT !.mem = Stored(s.mem, a[1], p), !.heap = a[3], !.pcx = Append(@, a[1])]
      BY <1>2 DEF read_pcx
    <2>7. \/ s.heap = <<>> /\ a[1] = Len(s.mem) + 1 /\ a[3] = <<>>
          \/ s.heap # <<>> /\ a[1] = Head(s.heap) /\ a[3] = Tail(s.heap)
      BY <2>5, AllocateFacts
    <2>8. p \in Packets
      <3>1. Len(asked) + 1 \in Nat  OBVIOUS
      <3>2. /\ m.cpu \in Nat /\ m.thr \in Nat /\ m.rq \in {"imiss", "load", "store", "int"}
            /\ m.region \in IobRegions /\ m.line \in IobLines /\ m.target \in Nat
        <4>1. /\ m.cpu \in IobCpus /\ m.thr \in 0..3 /\ m.rq \in {"imiss", "load", "store"}
              /\ m.region \in IobRegions /\ m.line \in IobLines /\ m.target \in IobCpus
          BY <2>2 DEF BridgeRequests
        <4>2. IobCpus \subseteq Nat  BY MenuFacts
        <4>3. m.cpu \in Nat /\ m.target \in Nat  BY <4>1, <4>2
        <4>4. m.thr \in Nat  BY <4>1
        <4>5. m.rq \in {"imiss", "load", "store", "int"}  BY <4>1
        <4> QED BY <4>1, <4>3, <4>4, <4>5
      <3> DEFINE b == set_dev(m.region) \in {1, 2} /\ m.rq = "load"
      <3>3. b \in BOOLEAN  OBVIOUS
      <3>4. p = [cpu |-> m.cpu, thr |-> m.thr, rq |-> m.rq, region |-> m.region, line |-> m.line,
                 target |-> m.target, tag |-> Len(asked) + 1, wait |-> 3, io_wait |-> b]
        BY DEF chop_pkt
      <3> HIDE DEF b, p
      <3> QED BY <3>1, <3>2, <3>3, <3>4 DEF Packets
    <2>9. BridgeSound(t, Append(asked, m), replies, out)
      <3> HIDE DEF p
      <3>1. p = chop_pkt(m, Len(asked) + 1)  BY DEF p
      <3>2. m \in IobMenu \cup {Event}  BY <2>1
      <3> QED BY <2>3, <2>6, <2>7, <2>8, <3>1, <3>2, TakeKeeps
    <2>10. asked \o <<m>> = Append(asked, m) /\ Append(asked, m) \in Seq(IobMenu \cup {Event})
      BY <2>1
    <2>11. t.cpx = s.cpx /\ t.vld = s.vld  BY <2>5, <2>6 DEF ListFields
    <2> QED BY <1>2, <2>9, <2>10, <2>11 DEF WithRequest, TakenIn
  <1> QED BY <1>1, <1>2

\* So does an interrupt of the diag.
LEMMA EventKeeps ==
    ASSUME NEW s, NEW asked \in Seq(IobMenu \cup {Event}), NEW replies, NEW out,
           BridgeSound(s, asked, replies, out), NEW targets \in IobEvents,
           NEW t \in gen_event(s, targets)
    PROVE  TakenIn(s, t, WithEvent(asked, targets), replies, out)
  <1>1. CASE targets = {}
    <2>1. t = s  BY <1>1 DEF gen_event
    <2>2. asked \o <<>> = asked  OBVIOUS
    <2> QED BY <1>1, <2>1, <2>2 DEF WithEvent, TakenIn
  <1>2. CASE targets # {}
    <2> DEFINE c == CHOOSE c \in targets : TRUE
    <2>1. c \in Nat
      <3>1. c \in targets  BY <1>2
      <3> QED BY <3>1, MenuFacts
    <2>2. PICK a \in Allocate(s.mem, s.heap) :
             t = [s EXCEPT !.mem = Stored(s.mem, a[1], IntPacket(c, a[2], 3)), !.heap = a[3],
                           !.pcx = Append(@, a[1])]
      BY <1>2 DEF gen_event
    <2> HIDE DEF c
    <2> DEFINE p == IntPacket(c, a[2], 3)
    <2>4. IsLists(s)  BY DEF BridgeSound
    <2>5. s.mem \in Seq(Packets) /\ s.heap \in Seq(1..Len(s.mem)) /\ DOMAIN s = ListFields
      BY <2>4 DEF IsLists
    <2>7. /\ \/ s.heap = <<>> /\ a[1] = Len(s.mem) + 1 /\ a[3] = <<>>
             \/ s.heap # <<>> /\ a[1] = Head(s.heap) /\ a[3] = Tail(s.heap)
          /\ a[2].region \in IobRegions /\ a[2].line \in IobLines
      BY <2>5, AllocateFacts
    <2>8. p \in Packets /\ p.rq = "int" /\ p.tag = 0 /\ ~p.io_wait
      <3> DEFINE b == FALSE
      <3>1. b \in BOOLEAN  OBVIOUS
      <3>2. p = [cpu |-> c, thr |-> 0, rq |-> "int", region |-> a[2].region, line |-> a[2].line,
                 target |-> c, tag |-> 0, wait |-> 3, io_wait |-> b]
        BY DEF IntPacket
      <3>3. ~p.io_wait /\ p.rq = "int" /\ p.tag = 0  BY DEF IntPacket
      <3> HIDE DEF b, p
      <3>4. p \in Packets  BY <2>1, <2>7, <3>1, <3>2 DEF Packets
      <3> QED BY <3>3, <3>4
    <2>9. BridgeSound(t, Append(asked, Event), replies, out)
      <3> HIDE DEF p
      <3>1. t = [s EXCEPT !.mem = Stored(s.mem, a[1], p), !.heap = a[3], !.pcx = Append(@, a[1])]
        BY <2>2 DEF p
      <3>2. Event \in IobMenu \cup {Event}  OBVIOUS
      <3> QED BY <2>7, <2>8, <3>1, <3>2, TakeKeeps
    <2>10. /\ asked \o <<Event>> = Append(asked, Event)
           /\ Append(asked, Event) \in Seq(IobMenu \cup {Event})
      OBVIOUS
    <2>11. t.cpx = s.cpx /\ t.vld = s.vld  BY <2>5, <2>2 DEF ListFields
    <2> QED BY <1>2, <2>9, <2>10, <2>11 DEF WithEvent, TakenIn
  <1> QED BY <1>1, <1>2

\* manual_init: the boot interrupt alone is queued.
LEMMA InitGood == IobInit => IobInv
  <1> SUFFICES ASSUME IobInit PROVE IobInv
    OBVIOUS
  <1>1. PICK c \in IobCpus :
           iobMem = <<[cpu |-> c, thr |-> 0, rq |-> "int", region |-> "rom",
                       line |-> "rom0", target |-> c, tag |-> 0, wait |-> 1, io_wait |-> FALSE]>>
    BY DEF IobInit
  <1> DEFINE s == Lists
             b == FALSE
             p == [cpu |-> c, thr |-> 0, rq |-> "int", region |-> "rom", line |-> "rom0",
                   target |-> c, tag |-> 0, wait |-> 1, io_wait |-> b]
  <1>2. b \in BOOLEAN /\ c \in Nat  BY MenuFacts
  <1>3. /\ iobMem = <<p>> /\ p.rq = "int" /\ p.tag = 0 /\ ~p.io_wait
    BY <1>1
  <1>4. p \in Packets
    <2>1. "rom" \in IobRegions /\ "rom0" \in IobLines  BY DEF IobRegions, IobLines
    <2> HIDE DEF b
    <2> QED BY <1>2, <2>1 DEF Packets
  <1> HIDE DEF p, b
  <1>5. /\ DOMAIN s = ListFields /\ s.mem = <<p>> /\ s.pcx = <<1>> /\ s.heap = <<>>
        /\ s.load = [t \in 0..1 |-> <<>>] /\ s.jload = [t \in 0..1 |-> <<>>] /\ s.cpx = <<>>
        /\ s.dev = <<>> /\ s.dram0 = <<>> /\ s.dram1 = <<>> /\ s.data = "none"
    <2>1. DOMAIN s = ListFields  BY DEF Lists, ListFields
    <2>2. /\ s.mem = iobMem /\ s.pcx = pcx_list /\ s.heap = pcx_heap /\ s.load = pcx_load
          /\ s.jload = jpcx_load /\ s.cpx = cpx_list /\ s.dev = dev_list
          /\ s.dram0 = dram_list[0] /\ s.dram1 = dram_list[1] /\ s.data = iobData
      BY DEF Lists
    <2>3. /\ pcx_list = <<1>> /\ pcx_heap = <<>>
          /\ pcx_load = [t \in 0..1 |-> <<>>] /\ jpcx_load = [t \in 0..1 |-> <<>>]
          /\ cpx_list = <<>> /\ dev_list = <<>> /\ dram_list = [d \in 0..1 |-> <<>>]
          /\ iobData = "none"
      BY DEF IobInit
    <2>4. dram_list[0] = <<>> /\ dram_list[1] = <<>>  BY <2>3
    <2> HIDE DEF s
    <2> QED BY <1>3, <2>1, <2>2, <2>3, <2>4
  <1> HIDE DEF s
  <1>6. Len(s.mem) = 1 /\ s.mem[1] = p /\ Len(s.pcx) = 1 /\ s.pcx[1] = 1 /\ Len(s.heap) = 0
    BY <1>5
  <1>7. \A k \in 1..Len(s.pcx) : k = 1 /\ s.mem[s.pcx[k]] = p
    BY <1>6
  <1>8. \A w : Len(Sending(s, w)) = 0
    BY <1>5 DEF Sending
  <1>9. \A w : Loading(s, w) = <<>>
    BY <1>5 DEF Loading
  <1>10. IsLists(s)
    <2>1. /\ s.mem \in Seq(Packets) /\ s.pcx \in Seq(1..Len(s.mem)) /\ s.heap \in Seq(1..Len(s.mem))
      BY <1>4, <1>5, <1>6
    <2>2. /\ s.load \in [0..1 -> Seq(1..Len(s.mem))] /\ s.jload \in [0..1 -> Seq(1..Len(s.mem))]
      BY <1>5
    <2>3. /\ s.cpx \in Seq(CpxPackets) /\ s.dev \in Seq(UcbPackets) /\ s.dram0 \in Seq(UcbPackets)
          /\ s.dram1 \in Seq(UcbPackets)
      BY <1>5
    <2>4. s.data \in IobLines  BY <1>5 DEF IobLines
    <2> QED BY <1>5, <2>1, <2>2, <2>3, <2>4 DEF IsLists
  <1>11. Objects(s)
    BY <1>6, <1>7 DEF Objects
  <1>12. InQueue(s, <<>>, <<>>)
    BY SMTT(30), <1>3, <1>7 DEF InQueue, Fits
  <1>13. AtDevice(s, <<>>, {}, <<>>)
    BY <1>8 DEF AtDevice, Live
  <1>14. Loaded(s, <<>>) /\ Answered(<<>>, <<>>) /\ Accounted(s, <<>>, {}, <<>>)
    BY <1>9 DEF Loaded, Answered, Accounted
  <1>15. <<>> \in Seq(CpxPackets)  OBVIOUS
  <1>16. BridgeSound(s, <<>>, {}, <<>>)
    BY <1>10, <1>11, <1>12, <1>13, <1>14, <1>15 DEF BridgeSound
  <1>17. /\ iobAsked = <<>> /\ iobReplies = {} /\ iobTold = <<>> /\ iobTold \o cpx_list = <<>>
    BY DEF IobInit
  <1>18. <<>> \in Seq(IobMenu \cup {Event})  OBVIOUS
  <1> QED BY <1>15, <1>16, <1>17, <1>18 DEF IobInv, s

\* handle_cpx keeps the invariant.
LEMMA AgeKeeps ==
    ASSUME NEW s, NEW asked, NEW replies, NEW told \in Seq(CpxPackets),
           BridgeSound(s, asked, replies, told \o s.cpx), s.cpx # <<>>
    PROVE  BridgeSound(handle_cpx(s), asked, replies, told \o handle_cpx(s).cpx)
  <1> DEFINE t == handle_cpx(s)
             c == s.cpx
             e == t.cpx
             out == told \o c
             out2 == told \o e
  <1>1. DOMAIN s = ListFields /\ c \in Seq(CpxPackets)  BY DEF BridgeSound, IsLists
  <1>2. /\ DOMAIN t = ListFields /\ t.mem = s.mem /\ t.heap = s.heap /\ t.pcx = s.pcx
        /\ t.load = s.load /\ t.jload = s.jload /\ t.dev = s.dev /\ t.dram0 = s.dram0
        /\ t.dram1 = s.dram1 /\ t.data = s.data
    BY <1>1, HandleCpxFacts
  <1>3. PICK d \in CpxPackets :
           /\ e = <<d>> \o Tail(c)
           /\ d.cpu = c[1].cpu /\ d.thr = c[1].thr /\ d.tag = c[1].tag
           /\ d.rq = c[1].rq /\ d.line = c[1].line
    BY <1>1, HandleCpxFacts
  <1>4. c # <<>>  OBVIOUS
  <1> HIDE DEF t, c, e
  <1>5. /\ e \in Seq(CpxPackets) /\ told \o e \in Seq(CpxPackets) /\ Len(told) \in Nat
        /\ Len(told \o e) = Len(told \o c) /\ (told \o e)[Len(told) + 1] = d
        /\ (told \o c)[Len(told) + 1] = c[1]
        /\ \A k \in 1..Len(told \o c) : k # Len(told) + 1 => (told \o e)[k] = (told \o c)[k]
    BY <1>1, <1>3, <1>4, AgedAlike
  <1> HIDE DEF out, out2
  <1>6. Alike(out, out2)
    <2>1. /\ Len(out2) = Len(out) /\ out2[Len(told) + 1] = d /\ out[Len(told) + 1] = c[1]
          /\ \A k \in 1..Len(out) : k # Len(told) + 1 => out2[k] = out[k]
      BY <1>5 DEF out, out2
    <2> QED BY <2>1, <1>3 DEF Alike
  <1>7. BridgeSound(s, asked, replies, out)  BY DEF out, c
  <1>8. t.cpx \in Seq(CpxPackets) /\ out2 \in Seq(CpxPackets)  BY <1>5 DEF e, out2
  <1>9. BridgeSound(t, asked, replies, out2)
    BY <1>2, <1>6, <1>7, <1>8, SameKeeps
  <1> QED BY <1>9 DEF t, e, out2

LEMMA AlikeSelf == \A out : Alike(out, out)
  BY DEF Alike

\* iob_cdrive_call keeps it, as the sequence of its parts.
LEMMA CoreKeeps ==
    ASSUME IobInv, Core
    PROVE  IobInv'
  <1>1. PICK m \in IobMenu \cup {None}, g \in SUBSET IobCpus, targets \in IobEvents,
             w \in ReqWaits, v \in ReqWaits : Cycle(m, g, targets, w, v)
    BY DEF Core
  <1> DEFINE l == [Lists EXCEPT !.q = grant_check(Qsel, g)]
             asked1 == WithRequest(iobAsked, m)
             asked2 == WithEvent(asked1, targets)
  <1>2. PICK s1 \in read_pcx(l, m, Len(iobAsked) + 1) :
          \E s2 \in gen_event(s1, targets) :
            LET s3 == IF s2.pcx = <<>> THEN s2 ELSE handle_pcx(s2, w, v)
                s4 == IF s3.cpx = <<>> THEN s3 ELSE handle_cpx(s3)
            IN  /\ Drive(s4)
                /\ iobMem' = s4.mem /\ pcx_heap' = s4.heap /\ pcx_list' = s4.pcx
                /\ pcx_load' = s4.load /\ jpcx_load' = s4.jload
                /\ dev_list' = s4.dev
                /\ dram_list' = [b \in 0..1 |-> IF b = 0 THEN s4.dram0 ELSE s4.dram1]
                /\ iobData' = s4.data
                /\ iobSpurious' = s4.spurious
                /\ iobAsked' = asked2
                /\ UNCHANGED <<iobReplies, iobFault>>
    BY <1>1 DEF Cycle, WithRequest, WithEvent
  <1>3. PICK s2 \in gen_event(s1, targets) :
            LET s3 == IF s2.pcx = <<>> THEN s2 ELSE handle_pcx(s2, w, v)
                s4 == IF s3.cpx = <<>> THEN s3 ELSE handle_cpx(s3)
            IN  /\ Drive(s4)
                /\ iobMem' = s4.mem /\ pcx_heap' = s4.heap /\ pcx_list' = s4.pcx
                /\ pcx_load' = s4.load /\ jpcx_load' = s4.jload
                /\ dev_list' = s4.dev
                /\ dram_list' = [b \in 0..1 |-> IF b = 0 THEN s4.dram0 ELSE s4.dram1]
                /\ iobData' = s4.data
                /\ iobSpurious' = s4.spurious
                /\ iobAsked' = asked2
                /\ UNCHANGED <<iobReplies, iobFault>>
    BY <1>2
  <1> DEFINE s3 == IF s2.pcx = <<>> THEN s2 ELSE handle_pcx(s2, w, v)
             s4 == IF s3.cpx = <<>> THEN s3 ELSE handle_cpx(s3)
  <1>4. /\ Drive(s4)
        /\ iobMem' = s4.mem /\ pcx_heap' = s4.heap /\ pcx_list' = s4.pcx
        /\ pcx_load' = s4.load /\ jpcx_load' = s4.jload
        /\ dev_list' = s4.dev
        /\ dram_list' = [b \in 0..1 |-> IF b = 0 THEN s4.dram0 ELSE s4.dram1]
        /\ iobData' = s4.data
        /\ iobSpurious' = s4.spurious
        /\ iobAsked' = asked2
        /\ iobReplies' = iobReplies
    BY <1>3
  <1>5. iobAsked \in Seq(IobMenu \cup {Event})  BY DEF IobInv
  <1>6. /\ asked1 \in Seq(IobMenu \cup {Event}) /\ asked2 \in Seq(IobMenu \cup {Event})
        /\ \E more \in Seq(IobMenu \cup {Event}) : asked2 = iobAsked \o more
    <2>1. m.rq # "nothing" => m \in IobMenu  BY DEF None
    <2> DEFINE S == IobMenu \cup {Event}
               x == IF m.rq = "nothing" THEN <<>> ELSE <<m>>
               y == IF targets = {} THEN <<>> ELSE <<Event>>
    <2>2. x \in Seq(S) /\ y \in Seq(S)
      <3>1. x = <<>> \/ (m \in S /\ x = <<m>>)  BY <2>1
      <3>2. y = <<>> \/ (Event \in S /\ y = <<Event>>)  OBVIOUS
      <3> HIDE DEF S, x, y
      <3> QED BY <3>1, <3>2, OneOrNone, Zenon
    <2>3. asked1 = iobAsked \o x /\ asked2 = (iobAsked \o x) \o y /\ iobAsked \in Seq(S)
      BY <1>5 DEF WithRequest, WithEvent
    <2> HIDE DEF x, y, S
    <2>4. (iobAsked \o x) \o y = iobAsked \o (x \o y) /\ x \o y \in Seq(S) /\ iobAsked \o x \in Seq(S)
          /\ iobAsked \o (x \o y) \in Seq(S)
      BY <2>2, <2>3
    <2> HIDE DEF asked1, asked2
    <2> QED BY <2>3, <2>4 DEF S
  <1> HIDE DEF l, asked1, asked2, s3, s4
  <1>7. ASSUME ~iobSpurious', Served'
        PROVE  iobTold' \in Seq(CpxPackets) /\ BridgeSound(Lists', iobAsked', iobReplies', iobTold' \o cpx_list')
    <2>1. Served
      <3>1. PICK more \in Seq(IobMenu \cup {Event}) : iobAsked' = iobAsked \o more  BY <1>4, <1>6
      <3> QED BY <3>1, <1>5, <1>7, ServedBefore
    <2>2. /\ iobTold \in Seq(CpxPackets)
          /\ BridgeSound(Lists, iobAsked, iobReplies, iobTold \o cpx_list)
      BY <2>1 DEF IobInv, Core
    <2> DEFINE out == iobTold \o cpx_list
    <2>3. BridgeSound(l, iobAsked, iobReplies, out) /\ l.cpx = cpx_list
      <3>1. /\ DOMAIN l = ListFields /\ l.mem = Lists.mem /\ l.heap = Lists.heap /\ l.pcx = Lists.pcx
            /\ l.load = Lists.load /\ l.jload = Lists.jload /\ l.dev = Lists.dev
            /\ l.dram0 = Lists.dram0 /\ l.dram1 = Lists.dram1 /\ l.data = Lists.data
            /\ l.cpx = Lists.cpx /\ Lists.cpx = cpx_list
        BY DEF l, Lists, ListFields
      <3>2. Lists.cpx \in Seq(CpxPackets) /\ out \in Seq(CpxPackets)  BY <2>2 DEF BridgeSound, IsLists
      <3>3. BridgeSound(Lists, iobAsked, iobReplies, out)  BY <2>2
      <3>4. l.cpx \in Seq(CpxPackets)  BY <3>1, <3>2
      <3> HIDE DEF out
      <3> QED BY <3>1, <3>2, <3>3, <3>4, AlikeSelf, SameKeeps
    <2> HIDE DEF out
    <2>4. BridgeSound(s1, asked1, iobReplies, out) /\ s1.cpx = l.cpx /\ s1.vld = l.vld
      <3>1. TakenIn(l, s1, WithRequest(iobAsked, m), iobReplies, out)
        BY <1>5, <2>3, ReadKeeps, Zenon
      <3> QED BY <3>1 DEF asked1, TakenIn
    <2>5. BridgeSound(s2, asked2, iobReplies, out) /\ s2.cpx = cpx_list /\ s2.vld = l.vld
      <3>1. asked1 \in Seq(IobMenu \cup {Event}) /\ BridgeSound(s1, asked1, iobReplies, out)  BY <1>6, <2>4
      <3>2. TakenIn(s1, s2, WithEvent(asked1, targets), iobReplies, out)
        BY <3>1, EventKeeps, Zenon
      <3> QED BY <2>3, <2>4, <3>2 DEF asked2, TakenIn
    <2>6. ServedIn(asked2)
      <3>1. ServedIn(iobAsked')  BY <1>7 DEF Served, ServedIn
      <3> QED BY <3>1, <1>4
    <2>7. ~s3.spurious
      <3>1. ~s4.spurious  BY <1>4, <1>7
      <3>2. CASE s3.cpx = <<>>
        BY <3>1, <3>2 DEF s4
      <3>3. CASE s3.cpx # <<>>
        <4>1. s4 = handle_cpx(s3)  BY <3>3 DEF s4
        <4>2. s4.spurious = s3.spurious
          BY <4>1 DEF handle_cpx
        <4> QED BY <3>1, <4>2
      <3> QED BY <3>2, <3>3
    <2>7a. ~s3.vld
      <3>1. DOMAIN Lists = ListFields /\ ~Lists.vld  BY DEF Lists, ListFields
      <3>2. ~l.vld
        BY <3>1 DEF l, ListFields
      <3>3. ~s2.vld  BY <2>5, <3>2
      <3>4. DOMAIN s2 = ListFields  BY <2>5 DEF BridgeSound, IsLists
      <3>5. "vld" \in DOMAIN s2  BY <3>4 DEF ListFields
      <3>6. handle_pcx(s2, w, v).vld = s2.vld
        BY <3>5 DEF handle_pcx
      <3> QED BY <3>3, <3>6 DEF s3
    <2>8. BridgeSound(s3, asked2, iobReplies, iobTold \o s3.cpx)
      <3>1. BridgeSound(s2, asked2, iobReplies, iobTold \o s2.cpx)  BY <2>5 DEF out
      <3>2. CASE s2.pcx = <<>>
        BY <3>1, <3>2 DEF s3
      <3>3. CASE s2.pcx # <<>>
        <4>1. s3 = handle_pcx(s2, w, v)  BY <3>3 DEF s3
        <4>2. ~handle_pcx(s2, w, v).spurious  BY <4>1, <2>7
        <4>3. BridgeSound(handle_pcx(s2, w, v), asked2, iobReplies, iobTold \o handle_pcx(s2, w, v).cpx)
          BY <1>6, <2>2, <2>6, <3>1, <3>3, <4>2, ServeKeeps
        <4> QED BY <4>1, <4>3
      <3> QED BY <3>2, <3>3
    <2>9. BridgeSound(s4, asked2, iobReplies, iobTold \o s4.cpx)
      <3>1. CASE s3.cpx = <<>>
        BY <3>1, <2>8 DEF s4
      <3>2. CASE s3.cpx # <<>>
        <4>1. s4 = handle_cpx(s3)  BY <3>2 DEF s4
        <4>2. BridgeSound(handle_cpx(s3), asked2, iobReplies, iobTold \o handle_cpx(s3).cpx)
          BY <2>2, <2>8, <3>2, AgeKeeps
        <4> QED BY <4>1, <4>2
      <3> QED BY <3>1, <3>2
    <2>10. s4.cpx \in Seq(CpxPackets) /\ (s4.vld => s4.cpx # <<>>)
      <3>1. s4.cpx \in Seq(CpxPackets)  BY <2>9 DEF BridgeSound, IsLists
      <3>2. s4.vld => s4.cpx # <<>>
        <4>1. CASE s3.cpx = <<>>
          BY <4>1, <2>7a DEF s4
        <4>2. CASE s3.cpx # <<>>
          <5>1. s4 = handle_cpx(s3)  BY <4>2 DEF s4
          <5>2. DOMAIN s3 = ListFields /\ s3.cpx \in Seq(CpxPackets)  BY <2>8 DEF BridgeSound, IsLists
          <5>3. PICK d \in CpxPackets : handle_cpx(s3).cpx = <<d>> \o Tail(s3.cpx)
            BY <5>2, <4>2, HandleCpxFacts
          <5>4. Tail(s3.cpx) \in Seq(CpxPackets)  BY <5>2, <4>2
          <5>5. <<d>> \o Tail(s3.cpx) # <<>>  BY <5>4
          <5> QED BY <5>1, <5>3, <5>5
        <4> QED BY <4>1, <4>2
      <3> QED BY <3>1, <3>2
    <2>11. /\ iobTold' \o cpx_list' = iobTold \o s4.cpx /\ iobTold' \in Seq(CpxPackets)
           /\ cpx_list' \in Seq(CpxPackets)
      <3>1. CASE s4.vld
        <4>1. cpx_list' = Tail(s4.cpx) /\ iobTold' = Append(iobTold, Head(s4.cpx))
          BY <3>1, <1>4 DEF Drive
        <4> DEFINE told == iobTold
                   c == s4.cpx
        <4>2. told \in Seq(CpxPackets) /\ c \in Seq(CpxPackets) /\ c # <<>>  BY <2>2, <2>10, <3>1
        <4> HIDE DEF told, c
        <4>3. /\ Append(told, Head(c)) \o Tail(c) = told \o c
              /\ Append(told, Head(c)) \in Seq(CpxPackets) /\ Tail(c) \in Seq(CpxPackets)
          BY <4>2, DrivenSame
        <4> QED BY <4>1, <4>3 DEF told, c
      <3>2. CASE ~s4.vld
        <4>1. cpx_list' = s4.cpx /\ iobTold' = iobTold  BY <3>2, <1>4 DEF Drive
        <4> QED BY <4>1, <2>2, <2>10
      <3> QED BY <3>1, <3>2
    <2>12. /\ DOMAIN Lists' = ListFields /\ Lists'.mem = s4.mem /\ Lists'.heap = s4.heap
           /\ Lists'.pcx = s4.pcx /\ Lists'.load = s4.load /\ Lists'.jload = s4.jload
           /\ Lists'.dev = s4.dev /\ Lists'.dram0 = s4.dram0 /\ Lists'.dram1 = s4.dram1
           /\ Lists'.data = s4.data /\ Lists'.cpx = cpx_list'
      <3>1. DOMAIN Lists' = ListFields  BY DEF Lists, ListFields
      <3>2. /\ Lists'.mem = iobMem' /\ Lists'.heap = pcx_heap'
            /\ Lists'.pcx = pcx_list' /\ Lists'.load = pcx_load' /\ Lists'.jload = jpcx_load'
            /\ Lists'.dev = dev_list' /\ Lists'.dram0 = dram_list'[0] /\ Lists'.dram1 = dram_list'[1]
            /\ Lists'.data = iobData' /\ Lists'.cpx = cpx_list'
        BY DEF Lists
      <3>3. dram_list'[0] = s4.dram0 /\ dram_list'[1] = s4.dram1  BY <1>4
      <3> QED BY <3>1, <3>2, <3>3, <1>4
    <2>13. BridgeSound(Lists', asked2, iobReplies, iobTold \o s4.cpx)
      <3> DEFINE o == iobTold \o s4.cpx
                 t == Lists'
      <3>1. o \in Seq(CpxPackets) /\ BridgeSound(s4, asked2, iobReplies, o)  BY <2>9 DEF BridgeSound
      <3>2. t.cpx \in Seq(CpxPackets)  BY <2>11, <2>12
      <3>3. /\ DOMAIN t = ListFields /\ t.mem = s4.mem /\ t.heap = s4.heap /\ t.pcx = s4.pcx
            /\ t.load = s4.load /\ t.jload = s4.jload /\ t.dev = s4.dev /\ t.dram0 = s4.dram0
            /\ t.dram1 = s4.dram1 /\ t.data = s4.data
        BY <2>12
      <3> HIDE DEF o, t
      <3>4. BridgeSound(t, asked2, iobReplies, o)
        BY <3>1, <3>2, <3>3, AlikeSelf, SameKeeps
      <3> QED BY <3>4 DEF o, t
    <2> QED BY <2>11, <2>13, <1>4
  <1>8. iobAsked' \in Seq(IobMenu \cup {Event})  BY <1>4, <1>6
  <1> QED BY <1>7, <1>8 DEF IobInv

\* iob_jdrive_call keeps it.
LEMMA SendingKeeps ==
    ASSUME IobInv, JSend
    PROVE  IobInv'
  <1>1. PICK stalls \in SUBSET {0, 1} :
          /\ dev_list' = Sent(dev_list, FALSE)
          /\ dram_list' = [b \in 0..1 |-> Sent(dram_list[b], b \in stalls)]
          /\ iobReplies' = iobReplies \cup Finished(dev_list, FALSE, 2)
                \cup Finished(dram_list[0], 0 \in stalls, 0)
                \cup Finished(dram_list[1], 1 \in stalls, 1)
          /\ UNCHANGED <<iobPcx, iobCpx, iobRest>>
    BY DEF JSend
  <1>2. /\ iobMem' = iobMem /\ pcx_heap' = pcx_heap /\ pcx_list' = pcx_list
        /\ pcx_load' = pcx_load /\ jpcx_load' = jpcx_load
        /\ cpx_list' = cpx_list /\ iobTold' = iobTold
        /\ iobData' = iobData /\ iobAsked' = iobAsked /\ iobSpurious' = iobSpurious
    BY <1>1 DEF iobPcx, iobCpx, iobRest
  <1>3. Served' <=> Served
    BY <1>2 DEF Served
  <1>4. ASSUME ~iobSpurious, Served
        PROVE  /\ iobTold \in Seq(CpxPackets)
               /\ BridgeSound(Lists', iobAsked, iobReplies', iobTold \o cpx_list)
    <2> DEFINE s == Lists
               t == Lists'
               out == iobTold \o cpx_list
               stall == [w \in 0..2 |-> IF w = 2 THEN FALSE ELSE w \in stalls]
               F == [w \in 0..2 |-> Finished(Sending(s, w), stall[w], w)]
    <2>1. iobTold \in Seq(CpxPackets) /\ BridgeSound(s, iobAsked, iobReplies, out)
      BY <1>4 DEF IobInv
    <2>2. /\ s.dev = dev_list /\ s.dram0 = dram_list[0] /\ s.dram1 = dram_list[1]
          /\ t.dev = dev_list' /\ t.dram0 = dram_list'[0] /\ t.dram1 = dram_list'[1]
      BY DEF Lists
    <2>3. /\ DOMAIN t = ListFields /\ t.mem = s.mem /\ t.heap = s.heap /\ t.pcx = s.pcx
          /\ t.load = s.load /\ t.jload = s.jload /\ t.data = s.data /\ t.cpx = s.cpx
      BY <1>2 DEF Lists, ListFields
    <2>4. /\ Sending(s, 0) = dram_list[0] /\ Sending(s, 1) = dram_list[1] /\ Sending(s, 2) = dev_list
          /\ Sending(t, 0) = Sent(dram_list[0], 0 \in stalls)
          /\ Sending(t, 1) = Sent(dram_list[1], 1 \in stalls)
          /\ Sending(t, 2) = Sent(dev_list, FALSE)
      <3>1. /\ dram_list'[0] = Sent(dram_list[0], 0 \in stalls)
            /\ dram_list'[1] = Sent(dram_list[1], 1 \in stalls)
        BY <1>1
      <3>2. dev_list' = Sent(dev_list, FALSE)  BY <1>1
      <3> HIDE DEF s, t
      <3> QED BY <2>2, <3>1, <3>2 DEF Sending
    <2>5. s.dev \in Seq(UcbPackets) /\ s.dram0 \in Seq(UcbPackets) /\ s.dram1 \in Seq(UcbPackets)
      BY <2>1 DEF BridgeSound, IsLists
    <2>6. PICK h0 \in {0, 1} : UcbMoved(dram_list[0], Sent(dram_list[0], 0 \in stalls),
                                     Finished(dram_list[0], 0 \in stalls, 0), 0, h0)
      <3>1. dram_list[0] \in Seq(UcbPackets) /\ (0 \in stalls) \in BOOLEAN  BY <2>2, <2>5
      <3> QED BY <3>1, SendMoves, Zenon
    <2>7. PICK h1 \in {0, 1} : UcbMoved(dram_list[1], Sent(dram_list[1], 1 \in stalls),
                                     Finished(dram_list[1], 1 \in stalls, 1), 1, h1)
      <3>1. dram_list[1] \in Seq(UcbPackets) /\ (1 \in stalls) \in BOOLEAN  BY <2>2, <2>5
      <3> QED BY <3>1, SendMoves, Zenon
    <2>8. PICK h2 \in {0, 1} : UcbMoved(dev_list, Sent(dev_list, FALSE), Finished(dev_list, FALSE, 2), 2, h2)
      <3>1. dev_list \in Seq(UcbPackets) /\ FALSE \in BOOLEAN  BY <2>2, <2>5
      <3> QED BY <3>1, SendMoves, Zenon
    <2> DEFINE f0 == Finished(dram_list[0], 0 \in stalls, 0)
               f1 == Finished(dram_list[1], 1 \in stalls, 1)
               f2 == Finished(dev_list, FALSE, 2)
               G == [w \in 0..2 |-> IF w = 2 THEN f2 ELSE IF w = 1 THEN f1 ELSE f0]
               sh == [w \in 0..2 |-> IF w = 2 THEN h2 ELSE IF w = 1 THEN h1 ELSE h0]
    <2>9. /\ G[0] = f0 /\ G[1] = f1 /\ G[2] = f2 /\ sh[0] = h0 /\ sh[1] = h1 /\ sh[2] = h2
      <3> HIDE DEF f0, f1, f2
      <3> QED OBVIOUS
    <2>10. iobReplies' = iobReplies \cup f2 \cup f0 \cup f1  BY <1>1
    <2> HIDE DEF s, t, out, f0, f1, f2, G, sh
    <2>11. \A w \in 0..2 : UcbMoved(Sending(s, w), Sending(t, w), G[w], w, sh[w]) /\ sh[w] \in {0, 1}
      <3>1. \A w \in 0..2 : w = 0 \/ w = 1 \/ w = 2  OBVIOUS
      <3>2. UcbMoved(Sending(s, 0), Sending(t, 0), G[0], 0, sh[0])  BY <2>4, <2>6, <2>9, Zenon DEF f0
      <3>3. UcbMoved(Sending(s, 1), Sending(t, 1), G[1], 1, sh[1])  BY <2>4, <2>7, <2>9, Zenon DEF f1
      <3>4. UcbMoved(Sending(s, 2), Sending(t, 2), G[2], 2, sh[2])  BY <2>4, <2>8, <2>9, Zenon DEF f2
      <3> QED BY <3>1, <3>2, <3>3, <3>4, <2>9
    <2>12. \A r : r \in iobReplies' <=> r \in iobReplies \/ \E w \in 0..2 : r \in G[w]
      <3>1. \A w \in 0..2 : w = 0 \/ w = 1 \/ w = 2  OBVIOUS
      <3>2. 0 \in 0..2 /\ 1 \in 0..2 /\ 2 \in 0..2  OBVIOUS
      <3> QED BY <3>1, <3>2, <2>9, <2>10
    <2>13. SendStep(s, t, G, sh, iobReplies, iobReplies')
      BY <2>3, <2>11, <2>12 DEF SendStep
    <2>14. BridgeSound(t, iobAsked, iobReplies', out)
      <3> DEFINE rr == iobReplies'
      <3>1. SendStep(s, t, G, sh, iobReplies, rr)  BY <2>13
      <3> HIDE DEF rr
      <3>2. BridgeSound(t, iobAsked, rr, out)  BY <2>1, <3>1, SendKeeps
      <3> QED BY <3>2 DEF rr
    <2> QED BY <2>1, <2>14 DEF t, out
  <1>5. ASSUME ~iobSpurious', Served'
        PROVE  iobTold' \in Seq(CpxPackets) /\ BridgeSound(Lists', iobAsked', iobReplies', iobTold' \o cpx_list')
    BY <1>2, <1>3, <1>4, <1>5
  <1>6. iobAsked' \in Seq(IobMenu \cup {Event})  BY <1>2 DEF IobInv
  <1> QED BY <1>5, <1>6 DEF IobInv

\* So does the reply of a device.
LEMMA ReplyingKeeps ==
    ASSUME IobInv, Reply
    PROVE  IobInv'
  <1>1. PICK r \in iobReplies, w \in ReqWaits :
          LET list == IF r.where = 2 THEN jpcx_load[r.thr] ELSE pcx_load[r.thr]
          IN  /\ iobReplies' = iobReplies \ {r}
              /\ IF list = <<>>
                 THEN iobFault' = TRUE /\ UNCHANGED <<cpx_list, pcx_heap>>
                 ELSE /\ cpx_list' = Append(cpx_list,
                            [Answer(iobMem[Head(list)], "io", w) EXCEPT
                               !.rq = IF r.where = 2 THEN "load_ret" ELSE @])
                      /\ pcx_heap' = Append(pcx_heap, Head(list))
                      /\ UNCHANGED iobFault
              /\ UNCHANGED <<iobMem, pcx_list, pcx_load, jpcx_load, Qsel, reqline,
                             cpxline, iobTold, dev_list, dram_list, iobData,
                             iobAsked, iobSpurious>>
    BY DEF Reply
  <1>2. /\ iobMem' = iobMem /\ pcx_list' = pcx_list /\ pcx_load' = pcx_load
        /\ jpcx_load' = jpcx_load /\ iobTold' = iobTold /\ dev_list' = dev_list
        /\ dram_list' = dram_list /\ iobData' = iobData /\ iobAsked' = iobAsked
        /\ iobSpurious' = iobSpurious
    BY <1>1
  <1>3. Served' <=> Served
    BY <1>2 DEF Served
  <1>4. ASSUME ~iobSpurious, Served
        PROVE  /\ iobTold \in Seq(CpxPackets)
               /\ BridgeSound(Lists', iobAsked, iobReplies', iobTold \o cpx_list')
    <2> DEFINE s == Lists
               t == Lists'
               out == iobTold \o cpx_list
               list == IF r.where = 2 THEN jpcx_load[r.thr] ELSE pcx_load[r.thr]
               id == Loading(s, r.where)[1]
               p == iobMem[id]
               m == iobAsked[r.tag]
               raw == Answer(p, "io", w)
               ans == [raw EXCEPT !.rq = IF r.where = 2 THEN "load_ret" ELSE raw.rq]
    <2>1. iobTold \in Seq(CpxPackets) /\ BridgeSound(s, iobAsked, iobReplies, out)
      BY <1>4 DEF IobInv
    <2>2. Expected(s, iobAsked, out, r.where, r.tag) /\ r.where \in 0..2 /\ r.thr = 0
      BY <2>1 DEF BridgeSound, AtDevice
    <2>3. /\ s.mem = iobMem /\ s.heap = pcx_heap /\ s.pcx = pcx_list /\ s.load = pcx_load
          /\ s.jload = jpcx_load /\ s.cpx = cpx_list
      BY DEF Lists
    <2>4. list = Loading(s, r.where)
      <3> HIDE DEF s
      <3> QED BY <2>2, <2>3 DEF Loading
    <2>5. /\ Loading(s, r.where) # <<>> /\ IsRequest(iobAsked, r.tag) /\ IoLoad(m)
          /\ p.tag = r.tag /\ Fits(iobAsked, p)
      BY <2>2, <2>3 DEF Expected
    <2>6. Loading(s, r.where) \in Seq(1..Len(iobMem)) /\ iobMem \in Seq(Packets) /\ cpx_list \in Seq(CpxPackets)
      <3>1. /\ s.load \in [0..1 -> Seq(1..Len(s.mem))] /\ s.jload \in [0..1 -> Seq(1..Len(s.mem))]
            /\ s.mem \in Seq(Packets) /\ s.cpx \in Seq(CpxPackets)
        BY <2>1 DEF BridgeSound, IsLists
      <3> HIDE DEF s
      <3> QED BY <3>1, <2>3 DEF Loading
    <2>7. Head(list) = id /\ id \in 1..Len(iobMem) /\ p \in Packets
      <3> DEFINE q == Loading(s, r.where)
      <3>1. q \in Seq(1..Len(iobMem)) /\ q # <<>>  BY <2>5, <2>6
      <3> HIDE DEF q, s
      <3>2. Head(q) = q[1] /\ q[1] \in 1..Len(iobMem)  BY <3>1, TailFacts
      <3>3. iobMem[q[1]] \in Packets  BY <3>2, <2>6, ElementFacts
      <3> QED BY <3>2, <3>3, <2>4 DEF q
    <2> HIDE DEF s, t, out, list, id, p, m
    <2>8. /\ p.rq = "load" /\ p.cpu = m.cpu /\ p.thr = m.thr /\ p.region = m.region
      <3>1. r.tag \in 1..Len(iobAsked)  BY <2>5 DEF IsRequest
      <3>2. p.tag # 0  BY <2>5, <3>1
      <3>3. p.rq # "int"  BY <2>5, <3>2 DEF Fits
      <3>4. p.cpu = m.cpu /\ p.thr = m.thr /\ p.region = m.region /\ p.rq = m.rq
        BY <2>5, <3>3 DEF Fits, m
      <3>5. m.rq = "load"  BY <2>5 DEF IoLoad
      <3> QED BY <3>4, <3>5
    <2>9. m.region \in {"dram0", "dram1", "jbi"}  BY <2>5, DeviceOf
    <2>10. /\ raw \in CpxPackets /\ raw.tag = p.tag /\ raw.cpu = p.cpu /\ raw.thr = p.thr
           /\ raw.rq = "load_ret" /\ raw.line = "io"
      <3>1. "io" \in IobLines  BY DEF IobLines
      <3>2. w \in Nat  BY IobAssumption
      <3>3. /\ raw \in CpxPackets /\ raw.tag = p.tag /\ raw.cpu = p.cpu /\ raw.thr = p.thr
            /\ raw.rq = CASE p.rq = "imiss" -> "ifill_ret" [] p.rq = "load" -> "load_ret"
                           [] p.rq = "int" -> "int_ret" [] OTHER -> "st_ack"
            /\ p.rq \in {"imiss", "load"} /\ p.region # "avail" => raw.line = "io"
        BY <2>7, <3>1, <3>2, AnswerMade
      <3> HIDE DEF raw
      <3> QED BY <3>3, <2>8, <2>9
    <2>11. ans = raw
      <3> HIDE DEF raw
      <3> QED BY <2>10 DEF CpxPackets
    <2>12. cpx_list' = Append(cpx_list, raw) /\ pcx_heap' = Append(pcx_heap, id)
      <3>1. list # <<>>  BY <2>4, <2>5
      <3>2. /\ cpx_list' = Append(cpx_list, [Answer(iobMem[Head(list)], "io", w) EXCEPT
                                              !.rq = IF r.where = 2 THEN "load_ret" ELSE @])
            /\ pcx_heap' = Append(pcx_heap, Head(list))
        BY <1>1, <3>1 DEF list
      <3>3. [Answer(iobMem[Head(list)], "io", w) EXCEPT
                !.rq = IF r.where = 2 THEN "load_ret" ELSE @] = ans
        BY <2>7 DEF p
      <3> QED BY <3>2, <3>3, <2>7, <2>11
    <2>13. ReplyStep(s, t, iobAsked, iobReplies, r, out, raw)
      <3>1. /\ DOMAIN t = ListFields /\ t.mem = s.mem /\ t.pcx = s.pcx
            /\ t.load = s.load /\ t.jload = s.jload /\ t.data = s.data
            /\ t.dev = s.dev /\ t.dram0 = s.dram0 /\ t.dram1 = s.dram1
            /\ t.heap = pcx_heap' /\ t.cpx = cpx_list'
        BY <1>2 DEF s, t, Lists, ListFields
      <3>2. t.heap = Append(s.heap, Loading(s, r.where)[1])
        BY <3>1, <2>3, <2>12 DEF id
      <3>3. t.cpx \in Seq(CpxPackets)
        <4> HIDE DEF raw
        <4> QED BY <3>1, <2>6, <2>10, <2>12
      <3>4. Matches(iobAsked[r.tag], raw) /\ raw.tag = r.tag /\ raw.rq # "int_ret"
        <4> HIDE DEF raw
        <4>1. m.rq = "load"  BY <2>5 DEF IoLoad
        <4>2. Matches(m, raw)  BY <4>1, <2>8, <2>9, <2>10 DEF Matches
        <4> QED BY <4>2, <2>5, <2>10 DEF m
      <3> HIDE DEF raw
      <3> QED BY <3>1, <3>2, <3>3, <3>4, <2>10 DEF ReplyStep
    <2> HIDE DEF raw, ans
    <2>14. BridgeSound(t, iobAsked, iobReplies \ {r}, Append(out, raw))
      BY <2>1, <2>13, ReplyKeeps
    <2>15. iobTold \o cpx_list' = Append(out, raw)
      <3>1. iobTold \o Append(cpx_list, raw) = Append(iobTold \o cpx_list, raw)
        BY <2>1, <2>6, <2>10, AppendLast
      <3> QED BY <3>1, <2>12 DEF out
    <2>16. iobReplies' = iobReplies \ {r}  BY <1>1
    <2> QED BY <2>1, <2>14, <2>15, <2>16 DEF t
  <1>5. ASSUME ~iobSpurious', Served'
        PROVE  iobTold' \in Seq(CpxPackets) /\ BridgeSound(Lists', iobAsked', iobReplies', iobTold' \o cpx_list')
    BY <1>2, <1>3, <1>4, <1>5
  <1>6. iobAsked' \in Seq(IobMenu \cup {Event})  BY <1>2 DEF IobInv
  <1> QED BY <1>5, <1>6 DEF IobInv

LEMMA StutterKeeps == IobInv /\ UNCHANGED iobVars => IobInv'
  <1> SUFFICES ASSUME IobInv, UNCHANGED iobVars PROVE IobInv'
    OBVIOUS
  <1>1. /\ iobMem' = iobMem /\ pcx_heap' = pcx_heap /\ pcx_list' = pcx_list /\ pcx_load' = pcx_load
        /\ jpcx_load' = jpcx_load /\ iobTold' = iobTold /\ dev_list' = dev_list /\ cpx_list' = cpx_list
        /\ dram_list' = dram_list /\ iobData' = iobData /\ iobAsked' = iobAsked /\ Qsel' = Qsel
        /\ iobSpurious' = iobSpurious /\ iobReplies' = iobReplies
    BY DEF iobVars, iobPcx, iobDev, iobCpx, iobRest
  <1>2. Lists' = Lists  BY <1>1 DEF Lists
  <1>3. Served' <=> Served  BY <1>1 DEF Served
  <1> QED BY <1>1, <1>2, <1>3 DEF IobInv

(* At every moment of every run of the bridge, for any cores, requests,    *)
(* events and delays: an unanswered request is in one place, in an object  *)
(* of its own, and nothing is answered twice.                              *)
THEOREM IobInvariance == IobSpec => []IobInv
  <1>1. IobInit => IobInv  BY InitGood
  <1>2. IobInv /\ [IobNext]_iobVars => IobInv'
    <2> SUFFICES ASSUME IobInv, [IobNext]_iobVars PROVE IobInv'
      OBVIOUS
    <2>1. CASE Core  BY <2>1, CoreKeeps
    <2>2. CASE JSend  BY <2>2, SendingKeeps
    <2>3. CASE Reply  BY <2>3, ReplyingKeeps
    <2>4. CASE UNCHANGED iobVars  BY <2>4, StutterKeeps
    <2> QED BY <2>1, <2>2, <2>3, <2>4 DEF IobNext
  <1> QED BY <1>1, <1>2, PTL DEF IobSpec

\* A set whose members are equal has at most one.
LEMMA AtMostOne ==
    ASSUME NEW S, \A a, b \in S : a = b
    PROVE  Cardinality(S) <= 1 /\ (S # {} => Cardinality(S) = 1)
  <1>1. CASE S = {}  BY <1>1, FS_EmptySet
  <1>2. CASE S # {}
    <2>1. PICK x \in S : TRUE  BY <1>2
    <2>2. S = {x}  BY <2>1
    <2> QED BY <2>2, FS_Singleton
  <1> QED BY <1>1, <1>2

\* What the invariant says of the packets that were driven.
LEMMA InvAnswers == IobInv => IobAnswers
  <1> SUFFICES ASSUME IobInv, ~iobSpurious, Served,
                      NEW i \in 1..Len(iobAsked), iobAsked[i] # Event
               PROVE  LET m == iobAsked[i]
                      IN  /\ Cardinality(Acks(i)) <= 1
                          /\ ~Pending => Cardinality(Acks(i)) = 1
                          /\ ~Pending /\ m.region = "intr" =>
                                \E k \in Told(i) : /\ iobTold[k].rq = "int_ret"
                                                   /\ iobTold[k].cpu = m.target
                          /\ \A k \in Acks(i) :
                                LET a == iobTold[k]
                                IN  /\ a.cpu = m.cpu /\ a.thr = m.thr
                                    /\ a.rq = CASE m.rq = "imiss" -> "ifill_ret"
                                                [] m.rq = "load" -> "load_ret"
                                                [] OTHER -> "st_ack"
                                    /\ m.region = "rom" /\ m.rq # "store" => a.line = m.line
                                    /\ IoLoad(m) => a.line = "io"
    BY DEF IobAnswers
  <1> DEFINE out == iobTold \o cpx_list
             m == iobAsked[i]
  <1>1. iobTold \in Seq(CpxPackets) /\ BridgeSound(Lists, iobAsked, iobReplies, out)
    BY DEF IobInv
  <1>2. cpx_list \in Seq(CpxPackets)
    BY <1>1 DEF BridgeSound, IsLists, Lists
  <1>3. \A k \in 1..Len(iobTold) : k \in 1..Len(out) /\ out[k] = iobTold[k]
    BY <1>1, <1>2
  <1>4. Answered(iobAsked, out) /\ Accounted(Lists, iobAsked, iobReplies, out)
    BY <1>1 DEF BridgeSound
  <1> HIDE DEF out
  <1>5. \A k \in Acks(i) : k \in 1..Len(iobTold) /\ iobTold[k].tag = i /\ iobTold[k].rq # "int_ret"
    BY DEF Acks, Told
  <1>6. \A j, k \in Acks(i) : j = k
    BY <1>3, <1>4, <1>5 DEF Answered
  <1>7. \A k \in Acks(i) : Matches(m, iobTold[k])
    BY <1>3, <1>4, <1>5 DEF Answered
  <1>8. ASSUME ~Pending
        PROVE  /\ Acks(i) # {}
               /\ m.region = "intr" => \E k \in Told(i) : /\ iobTold[k].rq = "int_ret"
                                                          /\ iobTold[k].cpu = m.target
    <2>1. /\ pcx_list = <<>> /\ cpx_list = <<>> /\ dev_list = <<>> /\ iobReplies = {}
          /\ dram_list = [b \in 0..1 |-> <<>>]
      BY <1>8 DEF Pending
    <2>2. out = iobTold  BY <2>1, <1>1 DEF out
    <2>3. dram_list[0] = <<>> /\ dram_list[1] = <<>>  BY <2>1
    <2>4. /\ Lists.pcx = <<>> /\ Lists.dev = <<>> /\ Lists.dram0 = <<>> /\ Lists.dram1 = <<>>
      BY <2>1, <2>3 DEF Lists
    <2>5. ~Queued(Lists, i)
      BY <2>4 DEF Queued
    <2>6. ~Open(Lists, iobReplies, i)
      <3>1. \A w : Sending(Lists, w) = <<>>  BY <2>4 DEF Sending
      <3>2. \A w, k : ~Live(Lists, w, k)  BY <3>1 DEF Live
      <3> QED BY <2>1, <3>2 DEF Open
    <2>7. /\ Acked(out, i)
          /\ m.region = "intr" => \E k \in 1..Len(out) :
                out[k].tag = i /\ out[k].rq = "int_ret" /\ out[k].cpu = m.target
      BY <2>5, <2>6, <1>4 DEF Accounted
    <2>8. Acks(i) # {}
      BY <2>2, <2>7 DEF Acked, Acks, Told
    <2>9. ASSUME m.region = "intr"
          PROVE  \E k \in Told(i) : iobTold[k].rq = "int_ret" /\ iobTold[k].cpu = m.target
      <3>1. PICK k \in 1..Len(out) : out[k].tag = i /\ out[k].rq = "int_ret" /\ out[k].cpu = m.target
        BY <2>7, <2>9
      <3>2. k \in Told(i)  BY <2>2, <3>1 DEF Told
      <3> QED BY <2>2, <3>1, <3>2
    <2> QED BY <2>8, <2>9
  <1>9. Cardinality(Acks(i)) <= 1 /\ (Acks(i) # {} => Cardinality(Acks(i)) = 1)
    BY <1>6, AtMostOne
  <1> QED BY <1>7, <1>8, <1>9 DEF Matches

(* Although pcx_heap hands answered packets out again, and whatever order  *)
(* devices reply in, a core is told about each of its requests at most     *)
(* once, with its own core, thread, kind and data, and exactly once when   *)
(* the bridge has nothing left to do.                                      *)
THEOREM IobAnswered == IobSpec => []IobAnswers
  <1>1. IobSpec => []IobInv  BY IobInvariance
  <1>2. IobInv => IobAnswers  BY InvAnswers
  <1> QED BY <1>1, <1>2, PTL
=============================================================================
