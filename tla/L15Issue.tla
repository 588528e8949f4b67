------------------------------ MODULE L15Issue ------------------------------
(***************************************************************************)
(* What stage S3 of the L1.5 pipeline sends out (l15_pipeline.v.pyv): a    *)
(* CPX return of one or two beats through l15_cpxencoder, a command for    *)
(* noc1buffer, and a message for noc3buffer and noc3encoder.  CPX and NoC3 *)
(* may keep the instruction in S3; the three stale flags keep it from      *)
(* sending again what was already taken.                                   *)
(*                                                                         *)
(* Every step is one clock cycle.  ready is noc3out_ready; S2 offers any   *)
(* instruction or none.  id tells an instruction from the next one.        *)
(***************************************************************************)
EXTENDS Naturals, Sequences

VARIABLES
    s3,                                 \* the instruction in S3
    cpx_staled, noc1_staled, noc3_staled,
    cpx_state,                          \* l15_cpxencoder: NORMAL, SECONDHALF
    buffer, flit,                       \* noc3buffer, noc3encoder's flit_state
    got, left,  \* history: what s3 has sent; the last instruction to leave
    owed        \* history: NoC3 messages accepted and not yet on the NoC

issueVars == <<s3, cpx_staled, noc1_staled, noc3_staled, cpx_state, buffer, flit,
          got, left, owed>>

Msgs == {"WRITEBACK", "FWDACK_DATA", "FWDACK"}

\* msg_length of noc3encoder: the flits after the first header
MsgLength(m) == IF m = "WRITEBACK" THEN 4 ELSE IF m = "FWDACK_DATA" THEN 2 ELSE 0

(* An instruction: beats on CPX, a NoC1 command or none, a NoC3 message or *)
(* none.  Only the returns of instruction fills and atomics have two       *)
(* beats, and those send nothing else; a NoC3 write-back goes with a NoC1  *)
(* write-back guard, and only a write-back does.                           *)
Requests ==
    {r \in [cpx : 0..2, noc1 : BOOLEAN, noc3 : Msgs \cup {"NONE"}] :
        /\ r.cpx = 2 => ~r.noc1 /\ r.noc3 = "NONE"
        /\ r.noc3 = "WRITEBACK" => r.noc1
        /\ r.noc3 \in {"FWDACK", "FWDACK_DATA"} => ~r.noc1}

Nothing == [cpx |-> 0, noc1 |-> FALSE, noc3 |-> "NONE"]
NoCount == [cpx |-> 0, noc1 |-> 0, noc3 |-> 0]
NoMsg == [msg |-> "NONE", id |-> 0]

-----------------------------------------------------------------------------
(* The combinational signals. *)

cpx_val == s3.req.cpx > 0 /\ ~cpx_staled

\* next_state of l15_cpxencoder
cpx_next_state ==
    IF cpx_val /\ s3.req.cpx = 2 /\ cpx_state = "NORMAL" THEN "SECONDHALF"
    ELSE "NORMAL"

stall_for_cpx == cpx_val /\ cpx_next_state # "NORMAL"

noc1_val == s3.req.noc1 /\ ~noc1_staled

noc3_val == s3.req.noc3 # "NONE" /\ ~noc3_staled

\* Mutant: the acknowledgement waits for one flit more than the message has.
encoder_ack_late(ready) ==
    buffer # NoMsg /\ flit = MsgLength(buffer.msg) + 1 /\ ready

\* noc3encoder_l15_req_ack: the last flit leaves
encoder_ack(ready) == buffer # NoMsg /\ flit = MsgLength(buffer.msg) /\ ready

\* noc3buffer_l15_req_ack
noc3_ack(ready) == noc3_val /\ (buffer = NoMsg \/ encoder_ack(ready))

stall_for_noc3(ready) == noc3_val /\ ~noc3_ack(ready)

stall_s3(ready) == stall_for_cpx \/ stall_for_noc3(ready)

\* Mutant: a two-beat or stalled return is always kept from being repeated.
cpx_staled_next_any(ready) == stall_s3(ready)

\* cpxencoder_req_staled_s3_next, noc1encoder_..., noc3encoder_...
cpx_staled_next(ready) ==
    IF cpx_staled THEN stall_s3(ready)
    ELSE ~stall_for_cpx /\ stall_for_noc3(ready)

noc1_staled_next(ready) ==
    IF noc1_staled THEN stall_s3(ready)
    ELSE stall_for_cpx \/ stall_for_noc3(ready)

noc3_staled_next(ready) ==
    IF noc3_staled THEN stall_s3(ready)
    ELSE ~stall_for_noc3(ready) /\ stall_for_cpx

\* What s3 has sent after this cycle.
GotNow(ready) ==
    [cpx |-> got.cpx + (IF cpx_val THEN 1 ELSE 0),
     noc1 |-> got.noc1 + (IF noc1_val THEN 1 ELSE 0),
     noc3 |-> got.noc3 + (IF noc3_ack(ready) THEN 1 ELSE 0)]

-----------------------------------------------------------------------------
\* flit_state_next
flit_next(ready) ==
    IF buffer = NoMsg THEN 0
    ELSE IF ~ready THEN flit
    ELSE IF flit = MsgLength(buffer.msg) THEN 0 ELSE flit + 1

IssueCycle(ready, r) ==
    /\ s3' = IF stall_s3(ready) THEN s3 ELSE [req |-> r, id |-> 1 - s3.id]
    /\ cpx_staled' = cpx_staled_next(ready)
    /\ noc1_staled' = noc1_staled_next(ready)
    /\ noc3_staled' = noc3_staled_next(ready)
    /\ cpx_state' = cpx_next_state
    /\ buffer' = IF noc3_ack(ready) THEN [msg |-> s3.req.noc3, id |-> s3.id]
                 ELSE IF encoder_ack(ready) THEN NoMsg ELSE buffer
    /\ flit' = flit_next(ready)
    /\ got' = IF stall_s3(ready) THEN GotNow(ready) ELSE NoCount
    /\ left' = IF stall_s3(ready) THEN left
               ELSE [req |-> s3.req, got |-> GotNow(ready)]
    /\ owed' = LET rest == IF encoder_ack(ready) THEN Tail(owed) ELSE owed
               IN  IF noc3_ack(ready)
                   THEN Append(rest, [msg |-> s3.req.noc3, id |-> s3.id])
                   ELSE rest

IssueInit ==
    /\ s3 = [req |-> Nothing, id |-> 0]
    /\ cpx_staled = FALSE /\ noc1_staled = FALSE /\ noc3_staled = FALSE
    /\ cpx_state = "NORMAL"
    /\ buffer = NoMsg /\ flit = 0
    /\ got = NoCount /\ left = [req |-> Nothing, got |-> NoCount]
    /\ owed = << >>

IssueNext == \E ready \in BOOLEAN, r \in Requests : IssueCycle(ready, r)

IssueSpec == IssueInit /\ [][IssueNext]_issueVars

\* The clock runs, and NoC3 takes a flit again and again.
IssueFairSpec == IssueSpec /\ WF_issueVars(\E r \in Requests : IssueCycle(TRUE, r))

-----------------------------------------------------------------------------
(* Properties. *)

(* Exactly once: an instruction leaves S3 having put each beat of its CPX  *)
(* return, its NoC1 command and its NoC3 message out once, whichever of    *)
(* CPX and NoC3 held it back and for how long; and noc3buffer holds just   *)
(* the message that was accepted and has not left the encoder, so none is  *)
(* overwritten, dropped or sent twice.                                     *)
ExactlyOnce ==
    /\ left.got.cpx = left.req.cpx
    /\ left.got.noc1 = (IF left.req.noc1 THEN 1 ELSE 0)
    /\ left.got.noc3 = (IF left.req.noc3 # "NONE" THEN 1 ELSE 0)
    /\ owed = (IF buffer = NoMsg THEN << >> ELSE <<buffer>>)

(* No instruction stays in S3 for ever: the stale flags of CPX and NoC3    *)
(* never wait for each other.                                              *)
S3Moves == \A k \in 0..1 : s3.id = k /\ s3.req # Nothing ~> s3.id # k
=============================================================================
