--------------------------- MODULE Fragmentation ----------------------------
(***************************************************************************)
(* RPCs as they are encoded, and the fragmentation of those that exceed    *)
(* max_transmit_size (gossipsub/rpc/traits.rs and fragmentation.rs).       *)
(*                                                                         *)
(* An RpcProto is a record: plain holds its published messages and         *)
(* subscriptions, in the order in which they are fragmented; control is    *)
(* <<>> if the control field is absent (None), and <<msgs>> if it is there *)
(* with the control messages msgs (Some), which may be none.  An object is *)
(* a record with its encoded length in the field size.                     *)
(***************************************************************************)
EXTENDS Naturals, FiniteSets, Sequences, SequencesExt

(* The length of n as a varint and of a field of n bytes (prost); lengths  *)
(* are below 2^31.                                                         *)
Varint(n) == IF n < 128 THEN 1 ELSE IF n < 16384 THEN 2
             ELSE IF n < 2097152 THEN 3 ELSE IF n < 268435456 THEN 4 ELSE 5
Field(n) == 1 + Varint(n) + n

Fields(objects) == FoldLeft(LAMBDA sum, o : sum + Field(o.size), 0, objects)

(* An RPC without anything in it.                                          *)
NewRpc == [plain |-> <<>>, control |-> <<>>]

(* From<Rpc> for RpcProto.  Its test of the control messages is inverted:  *)
(* an RPC that has some loses them, and one that has none gets a control   *)
(* field that is empty.                                                    *)
IntoProto(plain, control) ==
  [plain |-> plain, control |-> IF control = <<>> THEN <<control>> ELSE <<>>]

(* RpcProto::encoded_len: control messages are nested in a field of their  *)
(* own, which takes two bytes when it is there and empty.                  *)
EncodedLen(rpc) ==
  Fields(rpc.plain)
    + IF rpc.control = <<>> THEN 0 ELSE Field(Fields(rpc.control[1]))

(* Mutant: a new RPC is begun only when the last one is full already.      *)
MustBeginFull(rpc, n, max) == rpc # NewRpc /\ EncodedLen(rpc) > max

(* create_or_add_rpc: must an object of n bytes go to a new RPC?  Its size *)
(* plus 5% for length prefixes would exceed the limit.                     *)
MustBegin(rpc, n, max) ==
  rpc # NewRpc /\ EncodedLen(rpc) + (n * 105) \div 100 > max

(* The list of RPCs with a last one that takes an object of n bytes.       *)
LastFor(list, n, max) ==
  IF MustBegin(Last(list), n, max) THEN Append(list, NewRpc) ELSE list

(* add_item: a message or a subscription.                                  *)
AddObject(list, o, max) ==
  LET l == LastFor(list, o.size, max)
  IN [l EXCEPT ![Len(l)].plain = Append(@, o)]

AddObjects(list, objects, max) ==
  FoldLeft(LAMBDA l, o : AddObject(l, o, max), list, objects)

(* One control message, into the control field of the last RPC, which is   *)
(* made if need be.                                                        *)
AddControlMsg(list, m, max) ==
  LET l == LastFor(list, m.size, max)
  IN [l EXCEPT ![Len(l)].control = <<Append(FlattenSeq(@), m)>>]

(* The control messages one by one, if they are too long for one RPC; else *)
(* together, with no test of what the length of their field adds.          *)
AddControl(list, control, max) ==
  IF Fields(control) + 2 > max
  THEN FoldLeft(LAMBDA l, m : AddControlMsg(l, m, max), list, control)
  ELSE LET l == LastFor(list, Fields(control), max)
       IN [l EXCEPT ![Len(l)].control = <<control>>]

(* A message or a subscription that fits no RPC: the whole RPC is refused. *)
TooLarge(rpc, max) ==
  /\ EncodedLen(rpc) >= max
  /\ \E i \in DOMAIN rpc.plain : rpc.plain[i].size + 2 > max

(* fragment_rpc_message, of an RPC that is not too large.                  *)
Fragments(rpc, max) ==
  IF EncodedLen(rpc) < max THEN <<rpc>>
  ELSE LET list == AddObjects(<<NewRpc>>, rpc.plain, max)
       IN IF rpc.control = <<>> THEN list
          ELSE AddControl(list, rpc.control[1], max)
=============================================================================
