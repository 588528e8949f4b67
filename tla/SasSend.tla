------------------------------ MODULE SasSend ------------------------------
(***************************************************************************)
(* The sending side of tools/pli/socket/bw_socket.c.  $bw_sas_send packs   *)
(* commands in the buffer rerv and hands it to a non-blocking send when it *)
(* is long enough, on RETRY and on QUIT.  The kernel may take all of it,   *)
(* a prefix, or nothing; what does not fit in rerv goes to a list of nodes *)
(* (active) from which rerv is refilled, and emptied nodes are reused.     *)
(* The n-th byte ever offered is the number n.                             *)
(***************************************************************************)
EXTENDS Integers, Sequences

CONSTANTS
    CMD_BUFSIZE,   \* bytes of rerv
    SEND_MAX,      \* bytes from which rerv is sent
    NODE_SIZE,     \* bytes of a node of the list
    SsLengths,     \* lengths of the commands of the instance
    SsBytes        \* bound: bytes offered

ASSUME SsAssumption ==
    /\ CMD_BUFSIZE \in Nat /\ SEND_MAX \in Nat /\ SEND_MAX <= CMD_BUFSIZE
    /\ NODE_SIZE \in Nat \ {0} /\ SsLengths \subseteq Nat /\ SsBytes \in Nat

VARIABLES
    ssOffered,     \* bytes offered so far
    ssDue,         \* what the simulator must receive
    ssWire,        \* what the kernel has taken
    rerv,          \* the send buffer, num is its length
    active,        \* nodes of bytes that did not fit: [data, start, count]
    bufHeap        \* reusable nodes
ssVars == <<ssOffered, ssDue, ssWire, rerv, active, bufHeap>>

SsInit == /\ ssOffered = 0 /\ ssDue = <<>> /\ ssWire = <<>>
          /\ rerv = <<>> /\ active = <<>> /\ bufHeap = 0

\* A node of the list; its data array starts at index 0.
Bytes(node) == SubSeq(node.data, node.start + 1, node.start + node.count)

\* send_socket_nfd: the kernel takes the first k bytes of the buffer (-1: none).
send_socket_nfd(buf, k) == SubSeq(buf, k + 1, Len(buf))

\* packed: refill the buffer from the list; st is [rerv, active, heap].  Each
\* pass moves the first node, or what the buffer has room for of it.
Moved(st) ==
    LET node == Head(st.active)
        room == CMD_BUFSIZE - Len(st.rerv)
        rest == [data |-> node.data, start |-> node.start + room, count |-> node.count - room]
    IN IF st.active = <<>> \/ room = 0 THEN st
       ELSE IF node.count <= room
       THEN [rerv |-> st.rerv \o Bytes(node), active |-> Tail(st.active), heap |-> st.heap + 1]
       ELSE [rerv |-> st.rerv \o SubSeq(Bytes(node), 1, room),
             active |-> <<rest>> \o Tail(st.active), heap |-> st.heap]
packed(st) ==
    LET pass[n \in 0 .. Len(st.active)] == IF n = 0 THEN st ELSE Moved(pass[n-1])
    IN pass[Len(st.active)]

\* add_node: fill up the last node, then take nodes from the heap (or new ones).
Chunks(buf) == [i \in 1 .. (Len(buf) + NODE_SIZE - 1) \div NODE_SIZE |->
                  LET c == SubSeq(buf, (i - 1) * NODE_SIZE + 1,
                                       IF i * NODE_SIZE < Len(buf) THEN i * NODE_SIZE ELSE Len(buf))
                  IN [data |-> c, start |-> 0, count |-> Len(c)]]
ToppedUp(node, bytes) ==
    [data |-> SubSeq(node.data, 1, node.start + node.count) \o bytes,
     start |-> node.start, count |-> node.count + Len(bytes)]
add_node(st, buf) ==
    LET n == Len(st.active)
        room == NODE_SIZE - (st.active[n].start + st.active[n].count)
        k == IF n = 0 THEN 0 ELSE IF room > Len(buf) THEN Len(buf) ELSE room
        filled == IF k = 0 THEN st.active
                  ELSE SubSeq(st.active, 1, n - 1) \o <<ToppedUp(st.active[n], SubSeq(buf, 1, k))>>
        more == Chunks(SubSeq(buf, k + 1, Len(buf)))
    IN [rerv |-> st.rerv, active |-> filled \o more,
        heap |-> IF st.heap > Len(more) THEN st.heap - Len(more) ELSE 0]

\* Mutant: new bytes go behind the buffer although the list is not empty.
handle_buf_overtake(st, cmd, k) ==
    LET fit == IF CMD_BUFSIZE - Len(st.rerv) > Len(cmd) THEN Len(cmd) ELSE CMD_BUFSIZE - Len(st.rerv)
        sent == [st EXCEPT !.rerv = send_socket_nfd(@ \o SubSeq(cmd, 1, fit), k)]
        room == CMD_BUFSIZE - Len(sent.rerv)
        rest == SubSeq(cmd, fit + 1, Len(cmd))
        put == IF room > Len(rest) THEN Len(rest) ELSE room
        left == SubSeq(rest, put + 1, Len(rest))
        kept == [sent EXCEPT !.rerv = @ \o SubSeq(rest, 1, put)]
    IN IF left = <<>> THEN kept ELSE add_node(kept, left)
\* handle_buf: short commands are only packed; else send, refill, keep the rest.
Packs(st, cmd, force) == ~force /\ Len(st.rerv) + Len(cmd) < SEND_MAX
handle_buf(st, cmd, k) ==
    LET fit == IF CMD_BUFSIZE - Len(st.rerv) > Len(cmd) THEN Len(cmd) ELSE CMD_BUFSIZE - Len(st.rerv)
        rest == SubSeq(cmd, fit + 1, Len(cmd))
        sent == packed([st EXCEPT !.rerv = send_socket_nfd(@ \o SubSeq(cmd, 1, fit), k)])
        room == CMD_BUFSIZE - Len(sent.rerv)
        put == IF sent.active # <<>> THEN 0 ELSE IF room > Len(rest) THEN Len(rest) ELSE room
        left == SubSeq(rest, put + 1, Len(rest))
        kept == [sent EXCEPT !.rerv = @ \o SubSeq(rest, 1, put)]
    IN IF left = <<>> THEN kept ELSE add_node(kept, left)
\* The bytes handed to the kernel by handle_buf.
Handed(st, cmd) == st.rerv \o SubSeq(cmd, 1, IF CMD_BUFSIZE - Len(st.rerv) > Len(cmd) THEN Len(cmd)
                                             ELSE CMD_BUFSIZE - Len(st.rerv))

Now == [rerv |-> rerv, active |-> active, heap |-> bufHeap]
Become(st) == rerv' = st.rerv /\ active' = st.active /\ bufHeap' = st.heap

\* bw_sas_send_call: a command, RETRY (no bytes) or QUIT (what is buffered is dropped).
Handle(st, cmd, force) ==
    \/ /\ Packs(st, cmd, force)
       /\ Become([st EXCEPT !.rerv = @ \o cmd])
       /\ UNCHANGED ssWire
    \/ /\ ~Packs(st, cmd, force)
       /\ \E k \in 0 .. Len(Handed(st, cmd)) :
            /\ ssWire' = ssWire \o SubSeq(Handed(st, cmd), 1, k)
            /\ Become(handle_buf(st, cmd, k))
New(n) == [i \in 1 .. n |-> ssOffered + i]

SendCommand == \E n \in SsLengths :
    /\ ssOffered + n <= SsBytes
    /\ Handle(Now, New(n), FALSE)
    /\ ssOffered' = ssOffered + n /\ ssDue' = ssDue \o New(n)
SendRetry == Handle(Now, <<>>, TRUE) /\ UNCHANGED <<ssOffered, ssDue>>
SendQuit ==
    /\ ssOffered < SsBytes
    /\ Handle([rerv |-> <<>>, active |-> <<>>, heap |-> bufHeap], New(1), TRUE)
    /\ ssOffered' = ssOffered + 1 /\ ssDue' = ssWire \o New(1)

SsNext == SendCommand \/ SendRetry \/ SendQuit
SsSpec == SsInit /\ [][SsNext]_ssVars

-----------------------------------------------------------------------------
\* The bytes the list holds, from its head to its tail.
Waiting(nodes) ==
    LET bytes[n \in 0 .. Len(nodes)] == IF n = 0 THEN <<>> ELSE bytes[n-1] \o Bytes(nodes[n])
    IN bytes[Len(nodes)]

\* What the kernel took, what is in the buffer and what is in the list are, in this
\* order, exactly the bytes of the commands: no byte is lost, repeated or overtaken
\* by a partial send, a refill or a full buffer (handle_buf, packed, add_node); a
\* byte waits in the list only while the buffer is full.
WireInOrder ==
    /\ ssWire \o rerv \o Waiting(active) = ssDue
    /\ Len(rerv) <= CMD_BUFSIZE
    /\ active # <<>> => Len(rerv) = CMD_BUFSIZE
=============================================================================
