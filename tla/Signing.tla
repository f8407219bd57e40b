------------------------------ MODULE Signing -------------------------------
(***************************************************************************)
(* How messages are signed when they are published (gossipsub/signing/     *)
(* signer.rs), checked and normalised when they are received (rpc/         *)
(* validation.rs, rpc/types.rs, signing/validator.rs), and forwarded       *)
(* (types.rs, rpc/traits.rs).  Pure decisions on single messages: the      *)
(* theorems about them are in AcceptanceProofs.                            *)
(*                                                                         *)
(* An optional field is a set: {} when it is absent, {x} when it holds x.  *)
(* Signatures and the encodings of keys are external (libp2p identity).    *)
(***************************************************************************)
EXTENDS Naturals

CONSTANTS
  Keys,             \* public keys that decode
  PeerIds,          \* byte strings that are peer ids
  PeerIdOf,         \* PublicKey::to_peer_id
  Inlined,          \* keys of at most 42 bytes, which their peer id contains
  EmptyBytes,       \* the empty byte string
  SeqNos,           \* byte strings of a 64-bit number
  Sign(_, _),       \* Keypair::sign, of a key and a content
  Verifies(_, _, _) \* PublicKey::verify, of a key, a content and a signature

(* What the code relies on: a key verifies what it signed, and a peer id   *)
(* that contains a key contains one.                                       *)
SignaturesWork ==
  /\ PeerIdOf \in [Keys -> PeerIds] /\ Inlined \subseteq Keys
  /\ EmptyBytes \notin Keys \cup PeerIds \cup SeqNos
  /\ \A k, l \in Inlined : PeerIdOf[k] = PeerIdOf[l] => k = l
  /\ \A k \in Keys : \A c : /\ Verifies(k, c, Sign(k, c))
                            /\ Sign(k, c) # EmptyBytes

-----------------------------------------------------------------------------
(* Publishing.                                                             *)

(* generate_message_signature and verify_message_signature cover the       *)
(* message without its signature and key.                                  *)
Content(m) == [from |-> m.from, seqno |-> m.seqno, data |-> m.data,
               topic |-> m.topic]

Unsigned(from, seqno, data, topic) ==
  [from |-> from, seqno |-> seqno, data |-> {data}, topic |-> topic,
   signature |-> {}, key |-> {}]

(* Libp2pSigner: the key is sent along unless the peer id contains it.     *)
Signed(k, seqno, data, topic) ==
  LET m == Unsigned({PeerIdOf[k]}, {seqno}, data, topic) IN
  [from |-> m.from, seqno |-> m.seqno, data |-> m.data, topic |-> topic,
   signature |-> {Sign(k, Content(m))},
   key |-> IF k \in Inlined THEN {} ELSE {k}]

(* publish under each MessageAuthenticity: with a key, with an author that *)
(* is fixed or drawn at random, or without either.  Only messages without  *)
(* an author have no sequence number.                                      *)
Published(authenticity, k, id, seqno, data, topic) ==
  IF authenticity = "Signed" THEN Signed(k, seqno, data, topic)
  ELSE IF authenticity = "Anonymous" THEN Unsigned({}, {}, data, topic)
  ELSE Unsigned({id}, {seqno}, data, topic)

(* validate_config: the combinations that Behaviour::new accepts.          *)
ValidConfig(authenticity, mode) ==
  /\ mode = "Anonymous" => authenticity = "Anonymous"
  /\ mode = "Strict" => authenticity = "Signed"

-----------------------------------------------------------------------------
(* Receiving.                                                              *)

(* validate_message_proto.                                                 *)
ValidProto(m) ==
  /\ m.topic # EmptyBytes
  /\ m.from \subseteq PeerIds
  /\ m.seqno \subseteq SeqNos

(* MessageRpc::from: absent data is empty data, empty fields are absent.   *)
Sanitised(m) ==
  [from |-> m.from \ {EmptyBytes}, seqno |-> m.seqno \ {EmptyBytes},
   data |-> IF m.data = {} THEN {EmptyBytes} ELSE m.data,
   topic |-> m.topic,
   signature |-> m.signature \ {EmptyBytes}, key |-> m.key \ {EmptyBytes}]

(* extract_key: from the key field, or else from the peer id.              *)
ExtractKey(m) ==
  IF m.key # {} THEN m.key \cap Keys
  ELSE {k \in Inlined : PeerIdOf[k] \in m.from}

(* Signature and source, where there are any, belong to the key.           *)
SignatureHolds(m) ==
  \A s \in m.signature : \E k \in ExtractKey(m) :
    m.from \subseteq {PeerIdOf[k]} /\ Verifies(k, Content(m), s)

(* The validators.                                                         *)
Anonymous(m) ==
  m.signature = {} /\ m.seqno = {} /\ m.from = {} /\ m.key = {}
Permissive(m) == SignatureHolds(m)
Strict(m) ==
  /\ m.seqno # {} /\ m.from # {} /\ m.signature # {}
  /\ SignatureHolds(m)

(* The validator of each ValidationMode; None checks nothing.              *)
Validate(mode, m) ==
  /\ mode = "Strict" => Strict(m)
  /\ mode = "Permissive" => Permissive(m)
  /\ mode = "Anonymous" => Anonymous(m)

(* handle_received_rpc: is message m of an RPC processed further?          *)
Accepts(mode, m) == ValidProto(m) /\ Validate(mode, Sanitised(m))

(* What is forwarded of an accepted message, after its conversions to a    *)
(* RawMessage and back.                                                    *)
Forwarded(m) == Sanitised(m)
=============================================================================
