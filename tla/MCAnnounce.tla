----------------------------- MODULE MCAnnounce -----------------------------
(* Announce for TLC.                                                       *)
EXTENDS Announce, TLC

CONSTANTS t1, t2

Symmetry == Permutations(Conns)

(* Together just too long for one RPC of 100 bytes; in one of the two      *)
(* orders they are put into one nevertheless.                              *)
Sizes == (t1 :> 58) @@ (t2 :> 39)

Unlimited == [allowed |-> {t1, t2}, maxTopics |-> 9, maxPerRequest |-> 9]
RemoteFilters ==
  {Unlimited, [Unlimited EXCEPT !.maxTopics = 1],
   Combined([Unlimited EXCEPT !.maxPerRequest = 1],
            [Unlimited EXCEPT !.allowed = {t1}])}

(* RPCs of up to three messages or subscriptions and two control messages, *)
(* of sizes around the edges.                                              *)
Objects == [size : {20, 39, 58, 99}]
UpTo(n) == UNION {[1..k -> Objects] : k \in 0..n}
SmallRpcs == [plain : UpTo(3), control : {<<>>} \cup {<<msgs>> : msgs \in UpTo(2)}]

PlainOf(rpcs)   == FlattenSeq([i \in DOMAIN rpcs |-> rpcs[i].plain])
ControlOf(rpcs) == FlattenSeq([i \in DOMAIN rpcs |-> FlattenSeq(rpcs[i].control)])

(* Fragments hold the objects of the RPC, in their order, and nothing      *)
(* else.                                                                   *)
ASSUME FragmentsComplete ==
  \A rpc \in SmallRpcs :
    ~TooLarge(rpc, 100) =>
      LET rpcs == Fragments(rpc, 100)
      IN /\ PlainOf(rpcs) = rpc.plain
         /\ ControlOf(rpcs) = FlattenSeq(rpc.control)

(* The conversion drops control messages, and adds an empty field for none *)
(* of them.                                                                *)
ASSUME ControlInverted ==
  /\ EncodedLen(IntoProto(<<>>, <<[size |-> 20]>>)) = 0
  /\ EncodedLen(IntoProto(<<>>, <<>>)) = 2

(* Two cases of RpcsFit that the sizes above do not reach.  A subscription *)
(* of 98 bytes passes the check for 100 bytes, and the empty control field *)
(* makes its RPC too long; one of 128 bytes passes the check for 130, and  *)
(* its own prefix does.                                                    *)
ASSUME PrefixTooLong ==
  LET Rpc(size) == IntoProto(<<[size |-> size]>>, <<>>)
  IN /\ ~TooLarge(Rpc(98), 100) /\ Len(Fragments(Rpc(98), 100)) = 1
     /\ EncodedLen(Fragments(Rpc(98), 100)[1]) = 102
     /\ ~TooLarge(Rpc(128), 130) /\ Len(Fragments(Rpc(128), 130)) = 2
     /\ EncodedLen(Fragments(Rpc(128), 130)[1]) = 131
=============================================================================
