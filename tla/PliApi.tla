-------------------------------- MODULE PliApi --------------------------------
(***************************************************************************)
(* A command program driving an SJM port: the library the program is       *)
(* linked with (common/c/pli_api.cc) and the port's end of the two pipes   *)
(* (SJM::sjmStartCmdProgram, SJM::rdrNextCmd and the packets that          *)
(* SJM::Reset and SJM::sjmProcessInSigs send).                             *)
(*                                                                         *)
(* The program calls a function, which sends one command packet and waits  *)
(* for a packet that is neither transaction, device nor reset information. *)
(* Once CONFIG has been seen the port's pipes are O_NDELAY: a read that    *)
(* finds nothing and a write that finds no room fail.                      *)
(***************************************************************************)
EXTENDS Integers, Sequences

CONSTANTS Calls,           \* the calls a program makes: records [op, size, data, arb]
          MaxCalls,        \* bound on the calls of one program
          MaxTrans,        \* bound on address cycles on the bus
          MaxResets,       \* bound on resets of the port
          NumDev,          \* devices on the bus (get_device_info)
          PipeCap          \* response packets the pipe holds

VARIABLES api,             \* the library, in the child process
          up, down,        \* the pipes: commands, and packets of the port
          srv,             \* the port: [conf, cmd, failed, polled, resets]
          bus              \* [n, lost]: transactions seen; packets lost in a full pipe

apiVars == <<api, up, down, srv, bus>>

ASSUME PliApiAssumption ==
    /\ NumDev \in Nat /\ PipeCap \in Nat \ {0}
    /\ Calls \subseteq [op : STRING, size : Nat, data : BOOLEAN, arb : STRING]

-----------------------------------------------------------------------------
(* The text of a command                                                   *)

\* _read_write: how many words of the caller's array go out for a size.
ApiWords(size) == IF size = 64 THEN 16 ELSE IF size >= 32 THEN 8 ELSE IF size >= 16 THEN 4
               ELSE IF size >= 8 THEN 2 ELSE IF size > 0 THEN 1 ELSE 0

\* The other tokens of a command.
AddrTok == -1
SizeTok == -2
OptTok == -3

\* The functions of the interface, as the call records they lead to.  The
\* transfers take a size and, after a flag, data words of the caller.
NoArb == "NONE"
Transfer(op, size, data, arb) == [op |-> op, size |-> size, data |-> data, arb |-> arb]
IFETCH(size, data, arb) == Transfer("IFETCH", size, data, arb)
READ(size, data, arb) == Transfer("READ", size, data, arb)
WRITE(size, arb) == Transfer("WRITE", size, TRUE, arb)
OWN(size, data, arb) == Transfer("OWN", size, data, arb)
READBLK(data, arb) == Transfer("READBLK", 64, data, arb)
READIO(size, data, arb) == Transfer("READIO", size, data, arb)
INT(arb) == Transfer("INT", 64, TRUE, arb)
CONFIG == Transfer("CONFIG", 0, FALSE, NoArb)
ADDRESS(op) == Transfer(op, 0, FALSE, NoArb)    \* op: ADDRESS, IOADDRESS or CADDRESS
SEED == Transfer("SEED", 0, FALSE, NoArb)
\* WAIT, TIMEOUT, ECCERROR, APERROR_ADR, IOSYNC, DONE, CHECKDONE
Control(op) == Transfer(op, 0, FALSE, NoArb)
\* PRINT, ERROR, SSPINFO
Report(op) == Transfer(op, 0, FALSE, NoArb)

Transfers == {"IFETCH", "READ", "WRITE", "OWN", "READBLK", "READIO", "INT"}

\* The optional arguments of the transfer functions.  They are unsigned and
\* compared with -1, so ddelay, dsplit, wbdelay and wbsplit are never sent;
\* arbwait is sent when it is -2, the value the header calls NOARBWAIT.
Options(c) == IF c.arb = "NOARBWAIT" THEN <<OptTok>> ELSE <<>>

\* The tokens of the command packet.  Data words are numbered.
Encode(c) ==
    IF c.op \notin Transfers THEN <<>>
    ELSE <<AddrTok>> \o (IF c.op = "READBLK" THEN <<>> ELSE <<SizeTok>>)
         \o (IF c.data THEN [i \in 1..ApiWords(c.size) |-> i] ELSE <<>>) \o Options(c)

\* ParseReadWrite on the port's side: address, a size for the commands that
\* have one, then data up to the first option or until the size is used up.
\* INT has no size there.
HasSize(op) == op \in Transfers \ {"READBLK", "INT"}
Limit(size) == IF size > 4 THEN size \div 4 ELSE 1
LeadingWords(toks) ==
    CHOOSE m \in 0..Len(toks) : /\ \A i \in 1..m : toks[i] # OptTok
                                /\ m < Len(toks) => toks[m + 1] = OptTok
Build(c, toks) ==
    LET rest == SubSeq(toks, IF HasSize(c.op) THEN 3 ELSE 2, Len(toks))
        n == LeadingWords(rest)
    IN IF toks = <<>> THEN <<>> ELSE SubSeq(rest, 1, IF n < Limit(c.size) THEN n ELSE Limit(c.size))

-----------------------------------------------------------------------------
(* Packets.  n is a history variable: the call an answer belongs to.       *)

ApiAnswer(status, n, data) == [k |-> status, n |-> n, v |-> data]

\* write() to the response pipe: whole packets, or nothing.
ApiWrite(pkts) ==
    LET room == PipeCap - Len(down)
        fit == IF Len(pkts) <= room THEN pkts ELSE SubSeq(pkts, 1, room)
    IN /\ down' = down \o fit
       /\ bus' = [bus EXCEPT !.lost = @ \/ fit # pkts]

ApiInit ==
    /\ api = [st |-> "idle", n |-> 0, got |-> 0, trans |-> <<>>, devs |-> {}, reset |-> FALSE,
              call |-> "none"]
    /\ up = <<>> /\ down = <<>>
    /\ srv = [conf |-> FALSE, cmd |-> "none", built |-> <<>>, asked |-> <<>>, failed |-> FALSE,
              polled |-> FALSE, resets |-> 0]
    /\ bus = [n |-> 0, lost |-> FALSE]

-----------------------------------------------------------------------------
(* The child process                                                       *)

\* Any of the functions, down to the write() of send_cmd.
Call(c) ==
    /\ api.st = "idle" /\ api.n < MaxCalls
    /\ api' = [api EXCEPT !.st = "sent", !.n = @ + 1, !.call = c.op]
    /\ up' = Append(up, [c |-> c, toks |-> Encode(c), n |-> api.n + 1])
    /\ UNCHANGED <<down, srv, bus>>

\* What a packet does to the library; only an answer ends the wait.
Receives_reset(a, p) ==
    CASE p.k = "TRANSINFO" -> [a EXCEPT !.trans = Append(@, p.v)]
      [] p.k = "DEVICEINFO" -> [a EXCEPT !.devs = @ \union {p.v}]
      [] OTHER -> [a EXCEPT !.st = "idle", !.got = p.n, !.reset = @ \/ p.k = "RESET"]
Receives(a, p) ==
    CASE p.k = "TRANSINFO" -> [a EXCEPT !.trans = Append(@, p.v)]
      [] p.k = "RESET" -> [a EXCEPT !.reset = TRUE]
      [] p.k = "DEVICEINFO" -> [a EXCEPT !.devs = @ \union {p.v}]
      [] OTHER -> [a EXCEPT !.st = "idle", !.got = p.n]

\* One turn of the loop of send_cmd; without a packet it waits for ever.
ReceivePacket ==
    /\ api.st = "sent" /\ down # <<>>
    /\ api' = Receives(api, Head(down))
    /\ down' = Tail(down)
    /\ UNCHANGED <<up, srv, bus>>

\* RESET_ASSERTED reads and clears the flag.
ResetAsserted ==
    /\ api.st = "idle" /\ api.reset
    /\ api' = [api EXCEPT !.reset = FALSE]
    /\ UNCHANGED <<up, down, srv, bus>>

\* The program ends.  Nobody waits for it, so the port's sigsend still works.
Exit ==
    /\ api.st = "idle"
    /\ api' = [api EXCEPT !.st = "exited"]
    /\ UNCHANGED <<up, down, srv, bus>>

-----------------------------------------------------------------------------
(* The port                                                                *)

Silent == {"ADDRESS", "IOADDRESS", "CADDRESS"}     \* answered, no command
Unknown == {"SEED", "APERROR_ADR"}                 \* sent by the library, not decoded

\* sjmStartCmdProgram waits in rdrNextCmd for CONFIG; PRINT and ERROR may come
\* first, anything else makes the port give up without an answer.
Configure ==
    /\ ~srv.conf /\ ~srv.failed /\ up # <<>>
    /\ LET m == Head(up) IN
       /\ up' = Tail(up)
       /\ srv' = [srv EXCEPT !.conf = (m.c.op = "CONFIG"),
                             !.failed = m.c.op \notin {"CONFIG", "PRINT", "ERROR"}]
       /\ IF m.c.op \in {"CONFIG", "PRINT", "ERROR"} THEN ApiWrite(<<ApiAnswer("OK", m.n, 0)>>)
          ELSE UNCHANGED <<down, bus>>
    /\ UNCHANGED api

Devices(n) == [i \in 1..NumDev |-> ApiAnswer("DEVICEINFO", n, i)]

FetchCmd_silent ==
    /\ srv.conf /\ srv.cmd = "none" /\ up # <<>>
    /\ LET m == Head(up)
           pre == IF m.c.op = "SSPINFO" THEN Devices(m.n) ELSE <<>>
           status == IF m.c.op \in Unknown THEN "ERR" ELSE "OK"
       IN /\ up' = Tail(up)
          /\ IF m.c.op \in Silent THEN UNCHANGED <<down, bus>>
             ELSE ApiWrite(Append(pre, ApiAnswer(status, m.n, 0)))
          /\ srv' = IF m.c.op \in Silent \union {"CHECKDONE", "SSPINFO"} THEN srv
                    ELSE [srv EXCEPT !.cmd = m.c.op, !.asked = m.c,
                                     !.built = Build(m.c, m.toks)]
    /\ UNCHANGED api
\* One turn of the loop of rdrNextCmd.  A device packet that does not fit ends
\* it before the answer.
FetchCmd ==
    /\ srv.conf /\ srv.cmd = "none" /\ up # <<>>
    /\ LET m == Head(up)
           pre == IF m.c.op = "SSPINFO" THEN Devices(m.n) ELSE <<>>
           status == IF m.c.op \in Unknown THEN "ERR" ELSE "OK"
       IN /\ up' = Tail(up)
          /\ ApiWrite(Append(pre, ApiAnswer(status, m.n, 0)))
          /\ srv' = IF m.c.op \in Silent \union {"CHECKDONE", "SSPINFO"} THEN srv
                    ELSE [srv EXCEPT !.cmd = m.c.op, !.asked = m.c,
                                     !.built = Build(m.c, m.toks)]
    /\ UNCHANGED api

\* rdrNextCmd finds the pipe empty: an error is reported and the port goes on
\* without a command until its next cycle.
PollEmpty ==
    /\ srv.conf /\ srv.cmd = "none" /\ up = <<>> /\ ~srv.polled
    /\ srv' = [srv EXCEPT !.polled = TRUE]
    /\ UNCHANGED <<api, up, down, bus>>

\* The command has been carried out (SjmProgram, SjmCoherence).
CommandDone ==
    /\ srv.cmd \notin {"none", "DONE"}
    /\ srv' = [srv EXCEPT !.cmd = "none"]
    /\ UNCHANGED <<api, up, down, bus>>

\* sjmProcessInSigs: an address cycle is reported to the program.
BusTransaction ==
    /\ srv.conf /\ bus.n < MaxTrans
    /\ LET fits == Len(down) < PipeCap IN
       /\ down' = IF fits THEN Append(down, ApiAnswer("TRANSINFO", 0, bus.n + 1)) ELSE down
       /\ bus' = [n |-> bus.n + 1, lost |-> bus.lost \/ ~fits]
    /\ UNCHANGED <<api, up, srv>>

\* SJM::Reset: the command being run is forgotten, the program is told.
ServerReset ==
    /\ srv.conf /\ srv.resets < MaxResets
    /\ srv' = [srv EXCEPT !.cmd = "none", !.resets = @ + 1]
    /\ ApiWrite(<<ApiAnswer("RESET", 0, 0)>>)
    /\ UNCHANGED <<api, up>>

ApiNext == \/ \E c \in Calls : Call(c)
           \/ ReceivePacket \/ ResetAsserted \/ Exit
           \/ Configure \/ FetchCmd \/ PollEmpty \/ CommandDone \/ BusTransaction \/ ServerReset

\* The simulator keeps clocking the port and the child keeps running.
ApiFairness == /\ WF_apiVars(ReceivePacket) /\ WF_apiVars(Configure)
               /\ WF_apiVars(FetchCmd) /\ WF_apiVars(CommandDone)

ApiSpec == ApiInit /\ [][ApiNext]_apiVars /\ ApiFairness

-----------------------------------------------------------------------------
(* Properties                                                              *)

(***************************************************************************)
(* A call returns with the answer to that call: the information packets    *)
(* that arrive in between - any number of them, before or after it - are   *)
(* never taken for it and leave no answer behind for the next call.        *)
(***************************************************************************)
AnswerAt == {i \in DOMAIN down : down[i].k \in {"OK", "ERR"}}
OwnAnswer == /\ api.st = "idle" => api.got = api.n
             /\ \A i, j \in AnswerAt : i = j

(***************************************************************************)
(* TRANSACTION_INFO sees every transaction of the bus in order, as long as *)
(* no packet was lost in a full pipe: trans_list is the first of them and  *)
(* the pipe holds the others, in order.                                    *)
(***************************************************************************)
TransAt == {i \in DOMAIN down : down[i].k = "TRANSINFO"}
TransInOrder ==
    ~bus.lost => /\ Len(api.trans) <= bus.n
                 /\ \A i \in DOMAIN api.trans : api.trans[i] = i
                 /\ {down[i].v : i \in TransAt} = (Len(api.trans) + 1) .. bus.n
                 /\ \A i, j \in TransAt : i < j => down[i].v < down[j].v

(***************************************************************************)
(* The port runs the transfer the program asked for, with its data words   *)
(* in order.  (INT is the exception: its packet carries a size, the port   *)
(* expects none, and the size becomes the first data word.)                *)
(***************************************************************************)
BuiltAsAsked ==
    srv.cmd \in Transfers \ {"INT"} =>
        srv.built = IF srv.asked.data THEN [i \in 1..Limit(srv.asked.size) |-> i] ELSE <<>>

\* A call gets its own answer, whatever else comes down the pipe; every
\* transaction is reported, in order; and the port runs what was asked for.
AnswersMatch == OwnAnswer /\ TransInOrder /\ BuiltAsAsked

(***************************************************************************)
(* "Send a command packet and wait for a response packet": every call      *)
(* returns, unless the port has given up (no CONFIG), is past DONE, or an  *)
(* answer was lost in a full pipe.                                         *)
(***************************************************************************)
CallsReturn == (api.st = "sent") ~> (api.st = "idle" \/ srv.failed \/ srv.cmd = "DONE" \/ bus.lost)
=============================================================================
