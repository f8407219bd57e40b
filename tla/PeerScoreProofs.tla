--------------------------- MODULE PeerScoreProofs --------------------------
(***************************************************************************)
(* What holds of the peer scores for every set of peers, topics, messages  *)
(* and addresses and for all valid parameters: the status of a peer and    *)
(* its addresses follow its connections, deficits are charged when a peer  *)
(* leaves a mesh, blame and credit follow the verdicts, and no peer        *)
(* improves its score by coming, going or waiting.                         *)
(*                                                                         *)
(* The invariants do not depend on what a score is: whether remove_peer    *)
(* forgets a peer or retains it, they hold.  The last theorem compares     *)
(* scores: sums over the topics, which are ordered as their terms are, and *)
(* terms, whose rewards fall and whose penalties grow.                     *)
(***************************************************************************)
EXTENDS PeerScore, FiniteSetTheorems, WellFoundedInduction, TLAPS

-----------------------------------------------------------------------------
(* Connections, statuses and addresses.                                    *)

ConnVars == <<open, peers, gone, ips, peerIps>>

ConnType ==
  /\ open \in [Peers -> [Addresses -> Nat]]
  /\ peers \subseteq Peers
  /\ gone \in [Peers -> Nat]
  /\ ips \in [Peers -> SUBSET IPs] /\ peerIps \in [IPs -> SUBSET Peers]

ConnInv == ConnType /\ StatusFollows /\ NoGhostAddress

(* The retention period is a natural number.                               *)
LEMMA RetainNat == Global.retainScore \in Nat
BY ParamsAssumption DEF IsGlobalParams

(* A connection is established: the peer has statistics, marked as         *)
(* connected, whichever of add_ip and add_peer is called.                  *)
LEMMA ConnEstablished ==
  ASSUME ConnInv, NEW p \in Peers, NEW a \in Addresses, ConnectionEstablished(p, a)
  PROVE  ConnInv'
<1>1. /\ open' \in [Peers -> [Addresses -> Nat]]
      /\ \A q \in Peers, b \in Addresses :
           open'[q][b] = IF q = p /\ b = a THEN open[q][b] + 1 ELSE open[q][b]
  BY DEF ConnInv, ConnType, ConnectionEstablished
<1>2. /\ ips' \in [Peers -> SUBSET IPs] /\ peerIps' \in [IPs -> SUBSET Peers]
      /\ \A q \in Peers : ips'[q] = IF q = p THEN ips[q] \cup ({a} \ {NoIp}) ELSE ips[q]
      /\ \A i \in IPs : peerIps'[i] = IF i = a THEN peerIps[i] \cup {p} ELSE peerIps[i]
  BY DEF ConnInv, ConnType, ConnectionEstablished, AddIp, IPs
<1>3. /\ peers' = peers \cup {p} /\ gone' \in [Peers -> Nat]
      /\ \A q \in Peers : gone'[q] = IF q = p THEN 0 ELSE gone[q]
  <2>1. CASE a # NoIp \/ ~Connected(p)
    BY <2>1 DEF ConnInv, ConnType, ConnectionEstablished, MarkConnected
  <2>2. CASE ~(a # NoIp \/ ~Connected(p))
    <3>1. peers' = peers /\ gone' = gone
      BY <2>2 DEF ConnectionEstablished
    <3>2. p \in peers /\ gone[p] = 0
      BY <2>2 DEF ConnInv, StatusFollows
    <3>. QED  BY <3>1, <3>2 DEF ConnInv, ConnType
  <2>. QED  BY <2>1, <2>2
<1>4. ConnType'
  BY <1>1, <1>2, <1>3 DEF ConnInv, ConnType
<1>5. StatusFollows'
  <2>1. \A q \in Peers \ {p} : Connected(q)' <=> Connected(q)
    BY <1>1 DEF Connected, ConnInv, ConnType
  <2>2. Connected(p)'
    BY <1>1 DEF Connected, ConnInv, ConnType
  <2>. QED  BY <1>3, <2>1, <2>2 DEF ConnInv, StatusFollows
<1>6. NoGhostAddress'
  <2>. USE DEF ConnInv, ConnType
  <2>0. p \notin peers => ips[p] = {}
    BY DEF StatusFollows, NoGhostAddress, Connected, IPs
  <2>1. ASSUME NEW i \in IPs PROVE peerIps'[i] = {q \in peers' : i \in ips'[q]}
    <3>1. peerIps[i] = {q \in peers : i \in ips[q]}
      BY DEF NoGhostAddress
    <3>2. \A q \in Peers : q \in peerIps'[i] <=> q \in peers' /\ i \in ips'[q]
      BY <1>2, <1>3, <2>0, <3>1 DEF IPs
    <3>. QED  BY <1>2, <1>3, <3>2
  <2>2. ASSUME NEW q \in Peers, NEW i \in ips'[q] PROVE open'[q][i] > 0
    <3>1. i \in Addresses /\ open[q][i] \in Nat
      BY <1>2 DEF IPs
    <3>2. i \in ips[q] => open[q][i] > 0
      BY DEF NoGhostAddress
    <3>3. i \in ips[q] \/ (q = p /\ i = a)
      BY <1>2
    <3>. QED  BY <1>1, <3>1, <3>2, <3>3
  <2>. QED  BY <2>1, <2>2 DEF NoGhostAddress
<1>. QED  BY <1>4, <1>5, <1>6 DEF ConnInv

(* remove_ip, for a peer that has statistics.                              *)
LEMMA WithoutIp ==
  ASSUME ConnInv, NEW p \in Peers, NEW a \in Addresses, open[p][a] > 0
  PROVE  /\ p \in peers /\ gone[p] = 0
         /\ KnownWithout(p, a) \in [Peers -> SUBSET IPs]
         /\ PeerIpsWithout(p, a) \in [IPs -> SUBSET Peers]
         /\ \A q \in Peers : KnownWithout(p, a)[q] = IF q = p THEN ips[q] \ {a} ELSE ips[q]
         /\ \A i \in IPs : PeerIpsWithout(p, a)[i] =
              IF i = a THEN peerIps[i] \ {p} ELSE peerIps[i]
<1>1. p \in peers /\ gone[p] = 0
  BY DEF ConnInv, StatusFollows, Connected
<1>. QED  BY <1>1 DEF ConnInv, ConnType, KnownWithout, PeerIpsWithout

(* A connection is closed.                                                 *)
LEMMA ConnClosed ==
  ASSUME ConnInv, NEW p \in Peers, NEW a \in Addresses, ConnectionClosed(p, a)
  PROVE  ConnInv'
<1>. DEFINE known == KnownWithout(p, a)
            byIp  == PeerIpsWithout(p, a)
<1>0. open[p][a] > 0 /\ open[p][a] \in Nat
  BY DEF ConnectionClosed, ConnInv, ConnType
<1>1. /\ open' \in [Peers -> [Addresses -> Nat]]
      /\ \A q \in Peers, b \in Addresses :
           open'[q][b] = IF q = p /\ b = a THEN open[q][b] - 1 ELSE open[q][b]
  BY <1>0 DEF ConnInv, ConnType, ConnectionClosed
<1>2. /\ p \in peers /\ gone[p] = 0
      /\ known \in [Peers -> SUBSET IPs] /\ byIp \in [IPs -> SUBSET Peers]
      /\ \A q \in Peers : known[q] = IF q = p THEN ips[q] \ {a} ELSE ips[q]
      /\ \A i \in IPs : byIp[i] = IF i = a THEN peerIps[i] \ {p} ELSE peerIps[i]
  BY <1>0, WithoutIp
<1>. HIDE DEF known, byIp
<1>3. \A q \in Peers \ {p} : Connected(q)' <=> Connected(q)
  BY <1>1 DEF Connected
<1>4. /\ \A i \in IPs : byIp[i] = {q \in peers : i \in known[q]}
      /\ \A q \in Peers : \A i \in known[q] : open'[q][i] > 0
  <2>. USE DEF ConnInv, ConnType
  <2>1. ASSUME NEW i \in IPs PROVE byIp[i] = {q \in peers : i \in known[q]}
    <3>1. peerIps[i] = {q \in peers : i \in ips[q]}
      BY DEF NoGhostAddress
    <3>2. \A q \in Peers : q \in byIp[i] <=> q \in peers /\ i \in known[q]
      BY <1>2, <3>1
    <3>. QED  BY <1>2, <3>2
  <2>2. ASSUME NEW q \in Peers, NEW i \in known[q] PROVE open'[q][i] > 0
    <3>1. i \in Addresses /\ i \in ips[q] /\ ~(q = p /\ i = a)
      BY <1>2 DEF IPs
    <3>2. open[q][i] > 0
      BY <3>1 DEF NoGhostAddress
    <3>. QED  BY <1>1, <3>1, <3>2
  <2>. QED  BY <2>1, <2>2
<1>5. CASE \E b \in Addresses : open'[p][b] > 0
  <2>1. ips' = known /\ peerIps' = byIp /\ peers' = peers /\ gone' = gone
    BY <1>5 DEF ConnectionClosed, ForgetConnection, statVars, known, byIp
  <2>2. Connected(p)'
    BY <1>5 DEF Connected
  <2>3. StatusFollows'
    BY <1>2, <1>3, <2>1, <2>2 DEF ConnInv, StatusFollows
  <2>. QED  BY <1>1, <1>2, <1>4, <2>1, <2>3 DEF ConnInv, ConnType, NoGhostAddress
<1>6. CASE ~\E b \in Addresses : open'[p][b] > 0
  <2>1. RemovePeer(p, known, byIp)
    BY <1>6 DEF ConnectionClosed, ForgetConnection, known, byIp
  <2>2. ~Connected(p)'
    BY <1>6 DEF Connected
  <2>3. known[p] = {}
    BY <1>1, <1>2, <1>4, <1>6 DEF IPs
  <2>4. CASE OwnScore(p) + IpScore(known[p], byIp) > 0
    <3>1. /\ peers' = peers \ {p}
          /\ gone' = [gone EXCEPT ![p] = 0]
          /\ peerIps' = [i \in IPs |-> IF i \in known[p] THEN byIp[i] \ {p} ELSE byIp[i]]
          /\ ips' = [known EXCEPT ![p] = {}]
      BY <2>1, <2>4 DEF RemovePeer
    <3>2. ips' = known /\ peerIps' = byIp
      BY <1>2, <2>3, <3>1
    <3>3. gone' = gone
      BY <1>2, <3>1 DEF ConnInv, ConnType
    <3>4. StatusFollows'
      BY <1>3, <2>2, <3>1, <3>3 DEF ConnInv, StatusFollows
    <3>5. NoGhostAddress'
      BY <1>2, <1>4, <2>3, <3>1, <3>2 DEF NoGhostAddress
    <3>. QED  BY <1>1, <1>2, <3>1, <3>2, <3>3, <3>4, <3>5 DEF ConnInv, ConnType
  <2>5. CASE ~(OwnScore(p) + IpScore(known[p], byIp) > 0)
    <3>1. /\ gone' = [gone EXCEPT ![p] = 1]
          /\ ips' = known /\ peerIps' = byIp /\ peers' = peers
      BY <1>2, <2>1, <2>5 DEF RemovePeer
    <3>2. /\ gone' \in [Peers -> Nat]
          /\ \A q \in Peers : gone'[q] = IF q = p THEN 1 ELSE gone[q]
      BY <3>1 DEF ConnInv, ConnType
    <3>3. StatusFollows'
      BY <1>3, <2>2, <3>1, <3>2 DEF ConnInv, StatusFollows
    <3>4. NoGhostAddress'
      BY <1>4, <3>1 DEF NoGhostAddress
    <3>. QED  BY <1>1, <1>2, <3>1, <3>2, <3>3, <3>4 DEF ConnInv, ConnType
  <2>. QED  BY <2>4, <2>5
<1>. QED  BY <1>5, <1>6

(* A connection changes its address: it remains open throughout.           *)
LEMMA ConnAddressChange ==
  ASSUME ConnInv, NEW p \in Peers, NEW a \in Addresses, NEW b \in Addresses,
         AddressChange(p, a, b)
  PROVE  ConnInv'
<1>0. a # b /\ open[p][a] > 0 /\ open[p][a] \in Nat
  BY DEF AddressChange, ConnInv, ConnType
<1>1. /\ open' \in [Peers -> [Addresses -> Nat]]
      /\ \A q \in Peers, c \in Addresses :
           open'[q][c] = IF q = p /\ c = a THEN open[q][c] - 1
                         ELSE IF q = p /\ c = b THEN open[q][c] + 1 ELSE open[q][c]
  BY <1>0 DEF ConnInv, ConnType, AddressChange
<1>2. /\ p \in peers /\ gone[p] = 0
      /\ KnownWithout(p, a) \in [Peers -> SUBSET IPs]
      /\ \A q \in Peers : KnownWithout(p, a)[q] = IF q = p THEN ips[q] \ {a} ELSE ips[q]
      /\ \A i \in IPs : PeerIpsWithout(p, a)[i] =
           IF i = a THEN peerIps[i] \ {p} ELSE peerIps[i]
  BY <1>0, WithoutIp
<1>3. /\ ips' \in [Peers -> SUBSET IPs]
      /\ \A q \in Peers : ips'[q] = IF q = p THEN (ips[q] \ {a}) \cup ({b} \ {NoIp})
                                    ELSE ips[q]
  BY <1>2 DEF AddressChange, IPs
<1>4. /\ peerIps' \in [IPs -> SUBSET Peers]
      /\ \A i \in IPs : peerIps'[i] = IF i = b THEN peerIps[i] \cup {p}
                                      ELSE IF i = a THEN peerIps[i] \ {p} ELSE peerIps[i]
  BY <1>2 DEF AddressChange, ConnInv, ConnType
<1>5. peers' = peers /\ gone' = gone
  BY <1>2 DEF AddressChange, MarkConnected, ConnInv, ConnType
<1>6. \A q \in Peers : Connected(q)' <=> Connected(q)
  <2>1. Connected(p) /\ Connected(p)'
    BY <1>0, <1>1 DEF Connected, ConnInv, ConnType
  <2>2. \A q \in Peers \ {p} : Connected(q)' <=> Connected(q)
    BY <1>1 DEF Connected
  <2>. QED  BY <2>1, <2>2
<1>7. StatusFollows'
  BY <1>5, <1>6 DEF ConnInv, StatusFollows
<1>8. NoGhostAddress'
  <2>1. \A i \in IPs : peerIps'[i] = {q \in peers' : i \in ips'[q]}
    BY <1>2, <1>3, <1>4, <1>5 DEF ConnInv, ConnType, NoGhostAddress, IPs
  <2>2. \A q \in Peers : \A i \in ips'[q] : open'[q][i] > 0
    BY <1>0, <1>1, <1>3 DEF ConnInv, ConnType, NoGhostAddress, IPs
  <2>. QED  BY <2>1, <2>2 DEF NoGhostAddress
<1>. QED  BY <1>1, <1>3, <1>4, <1>5, <1>7, <1>8 DEF ConnInv, ConnType

(* A refresh drops peers that are gone for longer than the retention       *)
(* period: they are not connected and have no address left.                *)
LEMMA ConnRefresh ==
  ASSUME ConnInv, Refresh
  PROVE  ConnInv'
<1>1. /\ open' = open /\ peers' = peers \ Expired
      /\ gone' = [p \in Peers |-> IF p \in Expired THEN 0 ELSE gone[p]]
      /\ peerIps' = [i \in IPs |-> peerIps[i] \ {p \in Expired : i \in ips[p]}]
      /\ ips' = [p \in Peers |-> IF p \in Expired THEN {} ELSE ips[p]]
  BY DEF Refresh
<1>2. \A p \in Expired : p \in Peers /\ p \in peers /\ ~Connected(p)
  BY RetainNat DEF Expired, ConnInv, ConnType, StatusFollows
<1>3. \A p \in Expired : ips[p] = {}
  BY <1>2 DEF ConnInv, ConnType, NoGhostAddress, Connected, IPs
<1>. HIDE DEF Expired
<1>4. ips' = ips /\ peerIps' = peerIps
  BY <1>1, <1>3 DEF ConnInv, ConnType
<1>5. \A p \in Peers : Connected(p)' <=> Connected(p)
  BY <1>1 DEF Connected
<1>6. StatusFollows'
  BY <1>1, <1>2, <1>5 DEF ConnInv, StatusFollows
<1>7. NoGhostAddress'
  BY <1>1, <1>2, <1>3, <1>4 DEF ConnInv, ConnType, NoGhostAddress
<1>8. ConnType'
  BY <1>1, <1>4 DEF ConnInv, ConnType
<1>. QED  BY <1>6, <1>7, <1>8 DEF ConnInv

(* Time passes: who is gone stays gone.                                    *)
LEMMA ConnTick ==
  ASSUME ConnInv, Tick
  PROVE  ConnInv'
<1>1. /\ open' = open /\ peers' = peers /\ ips' = ips /\ peerIps' = peerIps
      /\ gone' = [p \in Peers |-> IF gone[p] = 0 THEN 0
                                  ELSE AtMost(gone[p] + 1, Global.retainScore + 2)]
  BY DEF Tick, ipVars
<1>2. /\ gone' \in [Peers -> Nat]
      /\ \A p \in Peers : gone'[p] = 0 <=> gone[p] = 0
  BY <1>1, RetainNat DEF AtMost, ConnInv, ConnType
<1>3. \A p \in Peers : Connected(p)' <=> Connected(p)
  BY <1>1 DEF Connected
<1>. QED  BY <1>1, <1>2, <1>3 DEF ConnInv, ConnType, StatusFollows, NoGhostAddress

(* Every step keeps statuses and addresses in line with the connections.   *)
LEMMA ConnStep == ConnInv /\ [Next]_vars => ConnInv'
<1>. SUFFICES ASSUME ConnInv, [Next]_vars PROVE ConnInv'
  OBVIOUS
<1>0. ASSUME UNCHANGED ConnVars PROVE ConnInv'
  BY <1>0 DEF ConnVars, ConnInv, ConnType, StatusFollows, NoGhostAddress, Connected
<1>1. ASSUME NEW p \in Peers, ConnectionStep(p) PROVE ConnInv'
  BY <1>1, ConnEstablished, ConnClosed, ConnAddressChange DEF ConnectionStep
<1>2. ASSUME NEW p \in Peers, MeshStep(p) PROVE ConnInv'
  BY <1>0, <1>2 DEF MeshStep, Graft, Prune, ConnVars, ipVars
<1>3. ASSUME NEW p \in Peers, MessageStep(p) PROVE ConnInv'
  BY <1>0, <1>3 DEF MessageStep, Received, Duplicated, Accept, Reject, RejectInvalid,
                    ConnVars, ipVars, statVars
<1>4. ASSUME NEW p \in Peers, ApplicationStep(p) PROVE ConnInv'
  BY <1>0, <1>4 DEF ApplicationStep, AddPenalty, SetApplicationScore, ConnVars, ipVars
<1>5. ASSUME NEW t \in Topics, NEW r \in ParamChoices, SetTopicParams(t, r)
      PROVE  ConnInv'
  BY <1>0, <1>5 DEF SetTopicParams, ConnVars, ipVars
<1>6. CASE UNCHANGED vars
  BY <1>0, <1>6 DEF vars, ConnVars, ipVars, statVars
<1>. QED  BY <1>1, <1>2, <1>3, <1>4, <1>5, <1>6, ConnRefresh, ConnTick DEF Next

(* At the start there are no connections and no statistics.                *)
LEMMA ConnInit == Init => ConnInv
<1>. SUFFICES ASSUME Init PROVE ConnInv
  OBVIOUS
<1>1. ConnType
  BY DEF Init, ConnType
<1>2. StatusFollows /\ NoGhostAddress
  BY DEF Init, StatusFollows, NoGhostAddress, Connected
<1>. QED  BY <1>1, <1>2 DEF ConnInv

(* The scores take a peer for connected exactly while it has a connection, *)
(* whatever the order of connections, closings, address changes and        *)
(* refreshes.                                                              *)
THEOREM ConnectedIsConnected == Spec => []StatusFollows
<1>1. ConnInv => StatusFollows
  BY DEF ConnInv
<1>. QED  BY <1>1, ConnInit, ConnStep, PTL DEF Spec

(* peer_ips and known_ips agree, and no peer is counted at an address that *)
(* it has no connection from.                                              *)
THEOREM NobodyHaunts == Spec => []NoGhostAddress
<1>1. ConnInv => NoGhostAddress
  BY DEF ConnInv
<1>. QED  BY <1>1, ConnInit, ConnStep, PTL DEF Spec

-----------------------------------------------------------------------------
(* Messages, verdicts and blame.                                           *)

MsgType ==
  /\ deliveries \in [Msgs -> Records]
  /\ seen \in [Msgs -> -1..DuplicateTTL]
  /\ awaiting \in [Msgs -> SUBSET Peers]
  /\ repeats \in [Msgs -> [Peers -> 0..2]]
  /\ blamed \in [Msgs -> SUBSET Peers] /\ owing \in [Msgs -> SUBSET Peers]

(* What the record d of a message says about the peers who, that its       *)
(* verdict is awaited for, and about the credit and the blame it led to.   *)
(* A record without a verdict names everyone who owes a penalty, but for   *)
(* the sender that the verdict is awaited for; duplicates are counted only *)
(* once there is a verdict, and then for those it names; the record of an  *)
(* invalid message names nobody, so that a duplicate is always new.        *)
Ledger(d, who, count, blame, debt) ==
  /\ d.status = "Invalid" => debt = {} /\ d.peers = {}
  /\ d.status # "Invalid" => blame = {}
  /\ d.status = "None" => debt = {} /\ d.peers = {}
  /\ d.status \in {"None", "Unknown"} =>
       /\ \A p \in who : debt \subseteq {p} \cup d.peers
       /\ \A p \in Peers : count[p] = 0
  /\ d.status = "Valid" => \A p \in Peers \ d.peers : count[p] = 0
  /\ \A p \in Peers : count[p] <= 1

LedgerOf(m) == Ledger(deliveries[m], awaiting[m], repeats[m], blamed[m], owing[m])

(* Whoever owes a penalty has statistics, so that a penalty reaches it.    *)
DebtorsKnown == \A m \in Msgs : owing[m] \subseteq peers

MsgInv ==
  peers \subseteq Peers /\ MsgType /\ DebtorsKnown /\ \A m \in Msgs : LedgerOf(m)

(* Records that are new or not there.                                      *)
LEMMA RecordConstants ==
  /\ NewRecord \in Records /\ NewRecord.status = "Unknown" /\ NewRecord.peers = {}
  /\ NoRecord \in Records /\ NoRecord.status = "None" /\ NoRecord.peers = {}
BY TimesAssumption DEF NewRecord, NoRecord, Records

(* The record that the handlers find or create.                            *)
LEMMA RecordFound ==
  ASSUME MsgType, NEW m \in Msgs
  PROVE  /\ Record(m) \in Records
         /\ deliveries[m].status # "None" => Record(m) = deliveries[m]
         /\ deliveries[m].status = "None" => Record(m) = NewRecord
         /\ Record(m).status \in {"Unknown", "Valid", "Invalid", "Ignored"}
         /\ Record(m).peers \subseteq Peers
<1>1. deliveries[m] \in Records
  BY DEF MsgType
<1>2. Record(m) \in Records
  BY <1>1, RecordConstants DEF Record
<1>3. Record(m).status # "None"
  BY RecordConstants DEF Record
<1>4. \A d \in Records : /\ d.status \in {"None", "Unknown", "Valid", "Invalid", "Ignored"}
                         /\ d.peers \subseteq Peers
  BY DEF Records
<1>. QED  BY <1>2, <1>3, <1>4 DEF Record

(* What the handlers write into a record: a sender, ...                    *)
LEMMA RecordNoted ==
  ASSUME NEW d \in Records, NEW P \in SUBSET Peers
  PROVE  LET e == [d EXCEPT !.peers = P]
         IN e \in Records /\ e.status = d.status /\ e.peers = P
BY Zenon DEF Records

(* ... an acceptance, ...                                                  *)
LEMMA RecordAccepted ==
  ASSUME NEW d \in Records
  PROVE  LET e == [d EXCEPT !.status = "Valid", !.valid = 0]
         IN e \in Records /\ e.status = "Valid" /\ e.peers = d.peers
<1>1. 0 \in 0..MaxAge
  BY TimesAssumption
<1>. QED  BY <1>1, Zenon DEF Records

(* ... another verdict, ...                                                *)
LEMMA RecordRejected ==
  ASSUME NEW d \in Records, NEW verdict \in {"Invalid", "Ignored"}
  PROVE  LET e == [d EXCEPT !.status = verdict, !.peers = {}]
         IN e \in Records /\ e.status = verdict /\ e.peers = {}
<1>1. verdict \in {"None", "Unknown", "Valid", "Invalid", "Ignored"}
  OBVIOUS
<1>. QED  BY <1>1, Zenon DEF Records

(* ... and its age.                                                        *)
LEMMA RecordOlder ==
  ASSUME NEW d \in Records
  PROVE  /\ Older(d) \in Records
         /\ \/ Older(d).status = "None" /\ Older(d).peers = {}
            \/ Older(d).status = d.status /\ Older(d).peers = d.peers
<1>1. CASE d.status = "None" \/ d.age + 1 >= RecordTTL
  BY <1>1, RecordConstants DEF Older
<1>2. CASE ~(d.status = "None" \/ d.age + 1 >= RecordTTL)
  <2>. DEFINE n == d.age + 1
              v == IF d.status = "Valid" THEN AtMost(d.valid + 1, MaxAge) ELSE d.valid
  <2>1. d.age \in 0..RecordTTL /\ d.valid \in 0..MaxAge
    BY DEF Records
  <2>2. n \in 0..RecordTTL /\ v \in 0..MaxAge
    BY <1>2, <2>1, TimesAssumption DEF AtMost
  <2>3. Older(d) = [d EXCEPT !.age = n, !.valid = v]
    BY <1>2, Zenon DEF Older
  <2>. HIDE DEF n, v
  <2>4. LET e == [d EXCEPT !.age = n, !.valid = v]
        IN e \in Records /\ e.status = d.status /\ e.peers = d.peers
    BY <2>2, Zenon DEF Records
  <2>. QED  BY <2>3, <2>4, Zenon
<1>. QED  BY <1>1, <1>2

(* Counting the duplicates of P for message m counts at most one for each  *)
(* of them.                                                                *)
LEMMA CountedRepeat ==
  ASSUME MsgType, NEW m \in Msgs, NEW P
  PROVE  /\ CountRepeat(m, P) \in [Msgs -> [Peers -> 0..2]]
         /\ \A n \in Msgs \ {m} : CountRepeat(m, P)[n] = repeats[n]
         /\ \A p \in Peers \ P : CountRepeat(m, P)[m][p] = repeats[m][p]
         /\ \A p \in Peers : repeats[m][p] = 0 => CountRepeat(m, P)[m][p] \in 0..1
<1>1. \A p \in InMesh(P, m) : p \in P
  BY DEF InMesh, Reached
<1>2. \A n \in 0..2 : AtMost(n + 1, 2) \in 0..2 /\ AtMost(0 + 1, 2) = 1
  BY DEF AtMost
<1>. QED  BY <1>1, <1>2 DEF CountRepeat, MsgType

(* Only the ledger of one message changes.                                 *)
LEMMA OneLedger ==
  ASSUME MsgInv, MsgType', peers' = peers, NEW m \in Msgs, LedgerOf(m)',
         owing'[m] \subseteq peers,
         \A n \in Msgs \ {m} :
           /\ deliveries'[n] = deliveries[n] /\ awaiting'[n] = awaiting[n]
           /\ repeats'[n] = repeats[n] /\ blamed'[n] = blamed[n] /\ owing'[n] = owing[n]
  PROVE  MsgInv'
<1>1. ASSUME NEW n \in Msgs, n # m PROVE LedgerOf(n)'
  <2>1. LedgerOf(n)
    BY DEF MsgInv
  <2>. QED  BY <1>1, <2>1 DEF LedgerOf
<1>2. DebtorsKnown'
  BY DEF MsgInv, DebtorsKnown
<1>. QED  BY <1>1, <1>2 DEF MsgInv

(* The first copy of a message.                                            *)
LEMMA MsgReceived ==
  ASSUME MsgInv, StatusFollows, NEW p \in Peers, NEW m \in Msgs, Received(p, m)
  PROVE  MsgInv'
<1>. USE DEF MsgInv
<1>1. /\ awaiting' = [awaiting EXCEPT ![m] = {p}]
      /\ deliveries' = [deliveries EXCEPT ![m] = Record(m)]
      /\ owing' = [owing EXCEPT ![m] =
           IF Record(m).status = "Unknown" THEN (@ \cap Record(m).peers) \cup {p}
           ELSE @]
      /\ seen' = [seen EXCEPT ![m] = 0]
      /\ repeats' = repeats /\ blamed' = blamed /\ peers' = peers
  BY DEF Received, statVars
<1>. DEFINE r == Record(m)
<1>2. /\ r \in Records /\ r.peers \subseteq Peers /\ r.status # "None"
      /\ deliveries[m].status # "None" => r = deliveries[m]
      /\ deliveries[m].status = "None" => r.status = "Unknown" /\ r.peers = {}
  BY RecordFound, RecordConstants
<1>3. LedgerOf(m)
  OBVIOUS
<1>. HIDE DEF r
<1>4. /\ deliveries'[m] = r /\ awaiting'[m] = {p}
      /\ repeats'[m] = repeats[m] /\ blamed'[m] = blamed[m]
      /\ owing'[m] = IF r.status = "Unknown" THEN (owing[m] \cap r.peers) \cup {p}
                     ELSE owing[m]
  BY <1>1 DEF MsgType, r
<1>5. MsgType'
  <2>1. owing'[m] \subseteq Peers
    BY <1>2, <1>4 DEF MsgType
  <2>2. deliveries' \in [Msgs -> Records] /\ awaiting' \in [Msgs -> SUBSET Peers]
    BY <1>1, <1>2 DEF MsgType, r
  <2>3. owing' \in [Msgs -> SUBSET Peers]
    BY <1>1, <2>1 DEF MsgType
  <2>4. seen' \in [Msgs -> -1..DuplicateTTL]
    BY <1>1, TimesAssumption DEF MsgType
  <2>. QED  BY <1>1, <2>2, <2>3, <2>4 DEF MsgType
<1>6. LedgerOf(m)'
  BY <1>2, <1>3, <1>4 DEF LedgerOf, Ledger
<1>7. owing'[m] \subseteq peers
  <2>1. p \in peers
    BY DEF Received, StatusFollows
  <2>. QED  BY <1>4, <2>1 DEF DebtorsKnown
<1>. QED  BY <1>1, <1>5, <1>6, <1>7, OneLedger DEF MsgType

(* A duplicate.                                                            *)
LEMMA MsgDuplicated ==
  ASSUME MsgInv, StatusFollows, NEW p \in Peers, NEW m \in Msgs, Duplicated(p, m)
  PROVE  MsgInv'
<1>. USE DEF MsgInv
<1>. DEFINE r    == Record(m)
            new  == p \notin r.peers
            good == {q \in {p} : new /\ InWindow(m)}
            bad  == {q \in {p} : new /\ r.status = "Invalid"}
            e    == IF new THEN Noted(m, p) ELSE r
<1>1. /\ deliveries' = [deliveries EXCEPT ![m] = e]
      /\ repeats' = CountRepeat(m, good)
      /\ blamed' = [blamed EXCEPT ![m] = @ \cup Reached(bad, TopicOf[m])]
      /\ owing' = [owing EXCEPT ![m] = (@ \cup {p}) \ Settled(bad, TopicOf[m])]
      /\ awaiting' = awaiting /\ seen' = seen /\ peers' = peers
      /\ p \in peers
  BY DEF Duplicated, StatusFollows
<1>2. /\ r \in Records /\ r.peers \subseteq Peers /\ r.status # "None"
      /\ deliveries[m].status # "None" => r = deliveries[m]
      /\ deliveries[m].status = "None" => r.status = "Unknown" /\ r.peers = {}
  BY RecordFound, RecordConstants
<1>3. LedgerOf(m)
  OBVIOUS
<1>4. /\ e \in Records /\ e.status = r.status
      /\ e.peers = IF r.status \in {"Unknown", "Valid"} THEN r.peers \cup {p} ELSE r.peers
  <2>1. LET f == [r EXCEPT !.peers = r.peers \cup {p}]
        IN f \in Records /\ f.status = r.status /\ f.peers = r.peers \cup {p}
    <3>1. r.peers \cup {p} \in SUBSET Peers
      BY <1>2
    <3>. HIDE DEF r
    <3>. QED  BY <1>2, <3>1, RecordNoted, Zenon
  <2>. QED  BY <1>2, <2>1 DEF Noted
<1>5. /\ good \subseteq {p} /\ (good # {} => new /\ r.status = "Valid")
      /\ bad = IF new /\ r.status = "Invalid" THEN {p} ELSE {}
      /\ Reached(bad, TopicOf[m]) \subseteq bad
      /\ Settled(bad, TopicOf[m]) = bad
  BY <1>1 DEF InWindow, Reached, Settled
<1>. HIDE DEF r, good, bad, e
<1>6. /\ repeats' \in [Msgs -> [Peers -> 0..2]]
      /\ \A n \in Msgs \ {m} : repeats'[n] = repeats[n]
      /\ \A q \in Peers \ good : repeats'[m][q] = repeats[m][q]
      /\ \A q \in Peers : repeats[m][q] = 0 => repeats'[m][q] \in 0..1
  BY <1>1, CountedRepeat
<1>7. /\ deliveries'[m] = e /\ awaiting'[m] = awaiting[m]
      /\ blamed'[m] = blamed[m] \cup Reached(bad, TopicOf[m])
      /\ owing'[m] = (owing[m] \cup {p}) \ bad
  BY <1>1, <1>5 DEF MsgType
<1>8. MsgType'
  <2>1. blamed'[m] \subseteq Peers /\ owing'[m] \subseteq Peers
    BY <1>5, <1>7 DEF MsgType
  <2>2. blamed' \in [Msgs -> SUBSET Peers]
    BY <1>1, <2>1 DEF MsgType
  <2>3. owing' \in [Msgs -> SUBSET Peers]
    BY <1>1, <2>1 DEF MsgType
  <2>. QED  BY <1>1, <1>4, <1>6, <2>2, <2>3 DEF MsgType
<1>9. LedgerOf(m)'
  <2>1. \A q \in Peers : repeats'[m][q] <= 1
    <3>1. CASE r.status = "Valid" /\ new
      <4>1. repeats[m][p] = 0
        BY <1>2, <1>3, <3>1 DEF LedgerOf, Ledger
      <4>. QED  BY <1>3, <1>5, <1>6, <4>1 DEF LedgerOf, Ledger
    <3>2. CASE ~(r.status = "Valid" /\ new)
      BY <1>3, <1>5, <1>6, <3>2 DEF LedgerOf, Ledger
    <3>. QED  BY <3>1, <3>2
  <2>2. CASE r.status = "Unknown"
    <3>1. \A q \in Peers : repeats'[m][q] = 0
      BY <1>2, <1>3, <1>5, <1>6, <2>2 DEF LedgerOf, Ledger
    <3>2. \A q \in awaiting[m] : owing[m] \subseteq {q} \cup r.peers
      BY <1>2, <1>3, <2>2 DEF LedgerOf, Ledger
    <3>3. owing'[m] \subseteq owing[m] \cup {p} /\ blamed'[m] = {}
      BY <1>2, <1>3, <1>5, <1>7, <2>2 DEF LedgerOf, Ledger
    <3>. QED  BY <1>4, <1>7, <2>1, <2>2, <3>1, <3>2, <3>3 DEF LedgerOf, Ledger
  <2>3. CASE r.status = "Invalid"
    <3>1. new /\ owing[m] = {} /\ r.peers = {}
      BY <1>2, <1>3, <2>3 DEF LedgerOf, Ledger
    <3>. QED  BY <1>4, <1>5, <1>7, <2>1, <2>3, <3>1 DEF LedgerOf, Ledger
  <2>4. CASE r.status = "Valid"
    <3>1. \A q \in Peers \ e.peers : repeats'[m][q] = 0
      BY <1>2, <1>3, <1>4, <1>5, <1>6, <2>4 DEF LedgerOf, Ledger
    <3>2. blamed'[m] = {}
      BY <1>2, <1>3, <1>5, <1>7, <2>4 DEF LedgerOf, Ledger
    <3>. QED  BY <1>4, <1>7, <2>1, <2>4, <3>1, <3>2 DEF LedgerOf, Ledger
  <2>5. CASE r.status = "Ignored"
    <3>1. blamed'[m] = {}
      BY <1>2, <1>3, <1>5, <1>7, <2>5 DEF LedgerOf, Ledger
    <3>. QED  BY <1>4, <1>7, <2>1, <2>5, <3>1 DEF LedgerOf, Ledger
  <2>6. r.status \in {"Unknown", "Valid", "Invalid", "Ignored"}
    BY RecordFound DEF r
  <2>. QED  BY <2>2, <2>3, <2>4, <2>5, <2>6
<1>10. owing'[m] \subseteq peers
  BY <1>1, <1>7 DEF DebtorsKnown
<1>. QED  BY <1>1, <1>6, <1>8, <1>9, <1>10, OneLedger DEF MsgType

(* The message is accepted: duplicates that came before are counted now.   *)
LEMMA MsgAccept ==
  ASSUME MsgInv, NEW p \in Peers, NEW m \in Msgs, Accept(p, m)
  PROVE  MsgInv'
<1>. USE DEF MsgInv
<1>. DEFINE r    == Record(m)
            late == IF r.status = "Unknown" THEN r.peers \ {p} ELSE {}
            e    == IF r.status = "Unknown" THEN [r EXCEPT !.status = "Valid", !.valid = 0]
                    ELSE r
<1>1. /\ awaiting' = [awaiting EXCEPT ![m] = {}]
      /\ deliveries' = [deliveries EXCEPT ![m] = e]
      /\ repeats' = CountRepeat(m, late)
      /\ blamed' = blamed /\ owing' = owing /\ seen' = seen /\ peers' = peers
  BY DEF Accept
<1>2. /\ r \in Records /\ r.status # "None"
      /\ deliveries[m].status # "None" => r = deliveries[m]
      /\ deliveries[m].status = "None" => r.status = "Unknown" /\ r.peers = {}
  BY RecordFound, RecordConstants
<1>3. LedgerOf(m)
  OBVIOUS
<1>4. /\ e \in Records /\ e.peers = r.peers
      /\ e.status = IF r.status = "Unknown" THEN "Valid" ELSE r.status
  <2>1. CASE r.status = "Unknown"
    <3>1. e = [r EXCEPT !.status = "Valid", !.valid = 0]
      BY <2>1, Zenon
    <3>. HIDE DEF r, e
    <3>2. e \in Records /\ e.status = "Valid" /\ e.peers = r.peers
      BY <1>2, <3>1, RecordAccepted, Zenon
    <3>. QED  BY <2>1, <3>2
  <2>2. CASE r.status # "Unknown"
    <3>1. e = r
      BY <2>2, Zenon
    <3>. HIDE DEF e
    <3>. QED  BY <1>2, <2>2, <3>1
  <2>. QED  BY <2>1, <2>2
<1>5. /\ r.status # "Unknown" => late = {}
      /\ late \subseteq r.peers
  OBVIOUS
<1>. HIDE DEF r, late, e
<1>6. /\ repeats' \in [Msgs -> [Peers -> 0..2]]
      /\ \A n \in Msgs \ {m} : repeats'[n] = repeats[n]
      /\ \A q \in Peers \ late : repeats'[m][q] = repeats[m][q]
      /\ \A q \in Peers : repeats[m][q] = 0 => repeats'[m][q] \in 0..1
  BY <1>1, CountedRepeat
<1>7. deliveries'[m] = e /\ awaiting'[m] = {}
  BY <1>1 DEF MsgType
<1>8. MsgType'
  BY <1>1, <1>4, <1>6 DEF MsgType
<1>9. LedgerOf(m)'
  <2>1. CASE r.status = "Unknown"
    <3>1. \A q \in Peers : repeats[m][q] = 0
      BY <1>2, <1>3, <2>1 DEF LedgerOf, Ledger
    <3>2. blamed[m] = {}
      BY <1>2, <1>3, <2>1 DEF LedgerOf, Ledger
    <3>. QED  BY <1>1, <1>4, <1>5, <1>6, <1>7, <2>1, <3>1, <3>2 DEF LedgerOf, Ledger
  <2>2. CASE r.status # "Unknown"
    <3>1. \A q \in Peers : repeats'[m][q] = repeats[m][q]
      BY <1>5, <1>6, <2>2
    <3>. QED  BY <1>1, <1>2, <1>3, <1>4, <1>7, <2>2, <3>1 DEF LedgerOf, Ledger
  <2>. QED  BY <2>1, <2>2
<1>10. owing'[m] \subseteq peers
  BY <1>1 DEF DebtorsKnown
<1>. QED  BY <1>1, <1>6, <1>8, <1>9, <1>10, OneLedger DEF MsgType

(* It is rejected or ignored.                                              *)
LEMMA MsgReject ==
  ASSUME MsgInv, NEW p \in Peers, NEW m \in Msgs,
         NEW verdict \in {"Invalid", "Ignored"}, Reject(p, m, verdict)
  PROVE  MsgInv'
<1>. USE DEF MsgInv
<1>. DEFINE r      == Record(m)
            guilty == Guilty(m, p, verdict)
            e      == IF r.status = "Unknown"
                      THEN [r EXCEPT !.status = verdict, !.peers = {}] ELSE r
<1>1. /\ p \in awaiting[m]
      /\ awaiting' = [awaiting EXCEPT ![m] = {}]
      /\ deliveries' = [deliveries EXCEPT ![m] = e]
      /\ blamed' = [blamed EXCEPT ![m] = @ \cup Reached(guilty, TopicOf[m])]
      /\ owing' = [owing EXCEPT ![m] = @ \ Settled(guilty, TopicOf[m])]
      /\ repeats' = repeats /\ seen' = seen /\ peers' = peers
  BY DEF Reject
<1>2. /\ r \in Records /\ r.status # "None" /\ r.peers \subseteq Peers
      /\ deliveries[m].status # "None" => r = deliveries[m]
      /\ deliveries[m].status = "None" => r.status = "Unknown" /\ r.peers = {}
  BY RecordFound, RecordConstants
<1>3. LedgerOf(m)
  OBVIOUS
<1>4. /\ e \in Records
      /\ e.status = IF r.status = "Unknown" THEN verdict ELSE r.status
      /\ e.peers = IF r.status = "Unknown" THEN {} ELSE r.peers
  <2>1. CASE r.status = "Unknown"
    <3>1. e = [r EXCEPT !.status = verdict, !.peers = {}]
      BY <2>1, Zenon
    <3>. HIDE DEF r, e
    <3>2. e \in Records /\ e.status = verdict /\ e.peers = {}
      BY <1>2, <3>1, RecordRejected, Zenon
    <3>. QED  BY <2>1, <3>2
  <2>2. CASE r.status # "Unknown"
    <3>1. e = r
      BY <2>2, Zenon
    <3>. HIDE DEF e
    <3>. QED  BY <1>2, <2>2, <3>1
  <2>. QED  BY <2>1, <2>2
<1>5. /\ guilty = IF r.status = "Unknown" /\ verdict = "Invalid" THEN {p} \cup r.peers
                  ELSE {}
      /\ Reached(guilty, TopicOf[m]) \subseteq guilty /\ guilty \subseteq Peers
      /\ Settled(guilty, TopicOf[m]) \subseteq guilty
      /\ guilty \cap peers \subseteq Settled(guilty, TopicOf[m])
  BY <1>2 DEF Guilty, Reached, Settled
<1>. HIDE DEF r, guilty, e
<1>6. /\ deliveries'[m] = e /\ awaiting'[m] = {} /\ repeats'[m] = repeats[m]
      /\ blamed'[m] = blamed[m] \cup Reached(guilty, TopicOf[m])
      /\ owing'[m] = owing[m] \ Settled(guilty, TopicOf[m])
  BY <1>1 DEF MsgType
<1>7. MsgType'
  <2>1. blamed'[m] \subseteq Peers /\ owing'[m] \subseteq Peers
    BY <1>5, <1>6 DEF MsgType
  <2>2. blamed' \in [Msgs -> SUBSET Peers]
    BY <1>1, <2>1 DEF MsgType
  <2>3. owing' \in [Msgs -> SUBSET Peers]
    BY <1>1, <2>1 DEF MsgType
  <2>. QED  BY <1>1, <1>4, <2>2, <2>3 DEF MsgType
<1>8. LedgerOf(m)'
  <2>1. CASE r.status = "Unknown"
    <3>1. /\ owing[m] \subseteq {p} \cup r.peers
          /\ blamed[m] = {} /\ \A q \in Peers : repeats[m][q] = 0
      BY <1>1, <1>2, <1>3, <2>1 DEF LedgerOf, Ledger
    <3>2. CASE verdict = "Invalid"
      <4>1. owing[m] \subseteq guilty \cap peers
        BY <1>5, <2>1, <3>1, <3>2 DEF DebtorsKnown
      <4>2. owing'[m] = {}
        BY <1>5, <1>6, <4>1
      <4>. QED  BY <1>4, <1>5, <1>6, <2>1, <3>1, <3>2, <4>2 DEF LedgerOf, Ledger
    <3>3. CASE verdict = "Ignored"
      BY <1>4, <1>5, <1>6, <2>1, <3>1, <3>3 DEF LedgerOf, Ledger
    <3>. QED  BY <3>2, <3>3
  <2>2. CASE r.status # "Unknown"
    <3>1. blamed'[m] = blamed[m] /\ owing'[m] = owing[m]
      BY <1>5, <1>6, <2>2
    <3>. QED  BY <1>2, <1>3, <1>4, <1>6, <2>2, <3>1 DEF LedgerOf, Ledger
  <2>. QED  BY <2>1, <2>2
<1>9. owing'[m] \subseteq peers
  BY <1>6 DEF DebtorsKnown
<1>. QED  BY <1>1, <1>7, <1>8, <1>9, OneLedger DEF MsgType

(* Time passes: a record expires with what it led to, or stays; a verdict  *)
(* that is overdue is no longer awaited.                                   *)
LEMMA MsgTick ==
  ASSUME MsgInv, Tick
  PROVE  MsgInv'
<1>. USE DEF MsgInv
<1>1. /\ deliveries' = [m \in Msgs |-> Older(deliveries[m])]
      /\ seen' = [m \in Msgs |-> IF seen[m] = -1 \/ seen[m] + 1 >= DuplicateTTL
                                 THEN -1 ELSE seen[m] + 1]
      /\ awaiting' = [m \in Msgs |-> IF seen[m] + 1 >= VerdictTTL THEN {} ELSE awaiting[m]]
      /\ repeats' = [m \in Msgs |-> IF deliveries'[m].status = "None"
                                    THEN [p \in Peers |-> 0] ELSE repeats[m]]
      /\ blamed' = [m \in Msgs |-> IF deliveries'[m].status = "None" THEN {} ELSE blamed[m]]
      /\ owing' = [m \in Msgs |-> IF deliveries'[m].status = "None" THEN {} ELSE owing[m]]
      /\ peers' = peers
  BY DEF Tick
<1>2. ASSUME NEW m \in Msgs
      PROVE  /\ Older(deliveries[m]) \in Records
             /\ \/ Older(deliveries[m]).status = "None" /\ Older(deliveries[m]).peers = {}
                \/ /\ Older(deliveries[m]).status = deliveries[m].status
                   /\ Older(deliveries[m]).peers = deliveries[m].peers
  BY RecordOlder DEF MsgType
<1>3. MsgType'
  <2>1. deliveries' \in [Msgs -> Records]
    BY <1>1, <1>2
  <2>2. seen' \in [Msgs -> -1..DuplicateTTL]
    BY <1>1, TimesAssumption DEF MsgType
  <2>3. repeats' \in [Msgs -> [Peers -> 0..2]]
    BY <1>1 DEF MsgType
  <2>. QED  BY <1>1, <2>1, <2>2, <2>3 DEF MsgType
<1>4. ASSUME NEW m \in Msgs PROVE LedgerOf(m)'
  <2>1. /\ deliveries'[m] = Older(deliveries[m])
        /\ awaiting'[m] \subseteq awaiting[m]
        /\ deliveries'[m].status = "None" =>
             blamed'[m] = {} /\ owing'[m] = {} /\ \A p \in Peers : repeats'[m][p] = 0
        /\ deliveries'[m].status # "None" =>
             /\ blamed'[m] = blamed[m] /\ owing'[m] = owing[m]
             /\ repeats'[m] = repeats[m]
    BY <1>1
  <2>2. CASE deliveries'[m].status = "None"
    <3>1. deliveries'[m].peers = {}
      <4>1. LedgerOf(m)
        OBVIOUS
      <4>. QED  BY <1>2, <2>1, <2>2, <4>1 DEF LedgerOf, Ledger
    <3>. QED  BY <2>1, <2>2, <3>1 DEF LedgerOf, Ledger
  <2>3. CASE deliveries'[m].status # "None"
    <3>1. deliveries'[m].status = deliveries[m].status /\ deliveries'[m].peers = deliveries[m].peers
      BY <1>2, <2>1, <2>3
    <3>2. LedgerOf(m)
      OBVIOUS
    <3>. QED  BY <2>1, <2>3, <3>1, <3>2 DEF LedgerOf, Ledger
  <2>. QED  BY <2>2, <2>3
<1>5. DebtorsKnown'
  BY <1>1 DEF DebtorsKnown
<1>. QED  BY <1>1, <1>3, <1>4, <1>5

(* Peers that lose their statistics lose what they owe.                    *)
LEMMA MsgForget ==
  ASSUME MsgInv, ForgetDebts, peers' \subseteq peers,
         UNCHANGED <<deliveries, seen, awaiting, repeats, blamed>>
  PROVE  MsgInv'
<1>. USE DEF MsgInv
<1>1. ASSUME NEW m \in Msgs
      PROVE  owing'[m] \subseteq owing[m] /\ owing'[m] \subseteq peers'
  BY DEF ForgetDebts, DebtorsKnown
<1>2. owing' \in [Msgs -> SUBSET Peers]
  <2>1. \A m \in Msgs : owing[m] \ (peers \ peers') \in SUBSET Peers
    BY DEF MsgType
  <2>. QED  BY <2>1 DEF ForgetDebts
<1>3. MsgType'
  BY <1>2 DEF MsgType
<1>4. ASSUME NEW m \in Msgs PROVE LedgerOf(m)'
  <2>1. LedgerOf(m)
    OBVIOUS
  <2>. QED  BY <1>1, <2>1 DEF LedgerOf, Ledger
<1>. QED  BY <1>1, <1>3, <1>4 DEF DebtorsKnown

(* Every step keeps the ledgers.                                           *)
LEMMA MsgStep == ConnInv /\ ConnInv' /\ MsgInv /\ [Next]_vars => MsgInv'
<1>. SUFFICES ASSUME ConnInv, ConnInv', MsgInv, [Next]_vars PROVE MsgInv'
  OBVIOUS
<1>0. ASSUME UNCHANGED messageVars, peers \subseteq peers' PROVE MsgInv'
  <2>1. peers' \subseteq Peers
    BY DEF ConnInv, ConnType
  <2>2. MsgType' /\ \A m \in Msgs : LedgerOf(m)'
    BY <1>0 DEF messageVars, MsgInv, MsgType, LedgerOf
  <2>3. DebtorsKnown'
    BY <1>0 DEF messageVars, MsgInv, DebtorsKnown
  <2>. QED  BY <2>1, <2>2, <2>3 DEF MsgInv
<1>1. ASSUME NEW p \in Peers, ConnectionStep(p) \/ MeshStep(p) \/ ApplicationStep(p)
      PROVE  MsgInv'
  <2>1. ASSUME NEW a \in Addresses, ConnectionClosed(p, a) PROVE MsgInv'
    <3>1. peers' \subseteq peers
      BY <2>1 DEF ConnectionClosed, ForgetConnection, RemovePeer, statVars
    <3>2. ForgetDebts /\ UNCHANGED <<deliveries, seen, awaiting, repeats, blamed>>
      BY <2>1 DEF ConnectionClosed
    <3>. QED  BY <3>1, <3>2, MsgForget
  <2>2. ASSUME NEW a \in Addresses, ConnectionEstablished(p, a) PROVE MsgInv'
    BY <1>0, <2>2 DEF ConnectionEstablished, MarkConnected
  <2>3. ASSUME NEW a \in Addresses, NEW b \in Addresses, AddressChange(p, a, b)
        PROVE  MsgInv'
    BY <1>0, <2>3 DEF AddressChange, MarkConnected
  <2>. QED  BY <1>0, <1>1, <2>1, <2>2, <2>3 DEF ConnectionStep, MeshStep, Graft, Prune,
              ApplicationStep, AddPenalty, SetApplicationScore
<1>2. ASSUME NEW p \in Peers, MessageStep(p) PROVE MsgInv'
  <2>1. ASSUME NEW t \in Topics, RejectInvalid(p, t) PROVE MsgInv'
    BY <1>0, <2>1 DEF RejectInvalid
  <2>2. StatusFollows
    BY DEF ConnInv
  <2>. QED  BY <1>2, <2>1, <2>2, MsgReceived, MsgDuplicated, MsgAccept, MsgReject
              DEF MessageStep
<1>3. ASSUME NEW t \in Topics, NEW r \in ParamChoices, SetTopicParams(t, r)
      PROVE  MsgInv'
  BY <1>0, <1>3 DEF SetTopicParams
<1>4. CASE Refresh
  BY <1>4, MsgForget DEF Refresh
<1>5. CASE UNCHANGED vars
  BY <1>0, <1>5 DEF vars, statVars
<1>. QED  BY <1>1, <1>2, <1>3, <1>4, <1>5, MsgTick DEF Next

(* At the start no message is known.                                       *)
LEMMA MsgInit == Init => MsgInv
<1>. SUFFICES ASSUME Init PROVE MsgInv
  OBVIOUS
<1>1. MsgType
  BY RecordConstants, TimesAssumption DEF Init, MsgType
<1>2. ASSUME NEW m \in Msgs PROVE LedgerOf(m)
  BY RecordConstants DEF Init, LedgerOf, Ledger
<1>3. peers \subseteq Peers
  BY DEF Init
<1>4. DebtorsKnown
  BY DEF Init, DebtorsKnown
<1>. QED  BY <1>1, <1>2, <1>3, <1>4 DEF MsgInv

(* Nobody is penalised for a message that was not found invalid, and once  *)
(* it was, everyone who sent it and whose statistics were kept since has   *)
(* been, if the topic was scored at the time, but for a first sender whose *)
(* verdict is overdue and one that repeats the message when the duplicate  *)
(* cache has forgotten it: the record collects the senders of duplicates   *)
(* until the verdict, and names nobody after it.                           *)
THEOREM BlameAfterVerdict == Spec => []BlameFollowsVerdict
<1>1. MsgInv => BlameFollowsVerdict
  BY DEF MsgInv, LedgerOf, Ledger, BlameFollowsVerdict
<1>. QED  BY <1>1, ConnInit, ConnStep, MsgInit, MsgStep, PTL DEF Spec

(* A duplicate is counted once for each peer: when the message is accepted *)
(* if it came before, and when it comes if the message is valid by then.   *)
THEOREM DuplicatesCountOnce == Spec => []RepeatsCountedOnce
<1>1. MsgInv => RepeatsCountedOnce
  BY DEF MsgInv, LedgerOf, Ledger, RepeatsCountedOnce
<1>. QED  BY <1>1, ConnInit, ConnStep, MsgInit, MsgStep, PTL DEF Spec

-----------------------------------------------------------------------------
(* The statistics of a topic.                                              *)

(* TopicStats without the bounds of the counters.                          *)
Stats ==
  [inMesh : BOOLEAN, graft : 0..MaxAge, time : 0..MaxAge, active : BOOLEAN,
   first : Nat, mesh : Nat, failure : Nat, invalid : Nat]

Table == [Peers -> [Topics -> Stats]]

(* The parameters of a scored topic.                                       *)
Params == {r \in ParamChoices : IsTopicParams(r)}

(* What a step that leaves the mesh alone makes of s.                      *)
Alike(s, s2) ==
  s2 \in Stats /\ s2.inMesh = s.inMesh /\ s2.active = s.active

(* Caps, squares and decays.                                               *)
LEMMA Arithmetic ==
  /\ \A n, c \in Nat : AtMost(n, c) \in Nat /\ AtMost(n, c) <= n /\ AtMost(n, c) <= c
  /\ \A n \in Int : Square(n) \in Nat
  /\ \A n \in Nat, d \in 0..100 : Decay(n, d) \in Nat /\ Decay(n, d) <= n
<1>1. \A n, c \in Nat : AtMost(n, c) \in Nat /\ AtMost(n, c) <= n /\ AtMost(n, c) <= c
  BY DEF AtMost
<1>2. ASSUME NEW n \in Int PROVE Square(n) \in Nat
  BY DEF Square
<1>3. ASSUME NEW n \in Nat, NEW d \in 0..100 PROVE Decay(n, d) \in 0..n
  BY DEF Decay
<1>. QED  BY <1>1, <1>2, <1>3

(* The numbers among the parameters.                                       *)
LEMMA ParamsNat ==
  ASSUME NEW r \in Params
  PROVE  /\ r.firstCap \in Nat /\ r.meshCap \in Nat /\ r.threshold \in Nat
         /\ r.firstDecay \in 0..100 /\ r.meshDecay \in 0..100
         /\ r.failureDecay \in 0..100 /\ r.invalidDecay \in 0..100
BY DEF Params, IsTopicParams

(* The fields of statistics.                                               *)
LEMMA StatsFields ==
  ASSUME NEW s \in Stats
  PROVE  /\ s.inMesh \in BOOLEAN /\ s.active \in BOOLEAN
         /\ s.graft \in 0..MaxAge /\ s.time \in 0..MaxAge
         /\ s.first \in Nat /\ s.mesh \in Nat /\ s.failure \in Nat /\ s.invalid \in Nat
BY DEF Stats

(* Statistics within the bounds are those of the type invariant.           *)
LEMMA StatsBounded ==
  ASSUME NEW s
  PROVE  s \in TopicStats <=> s \in Stats /\ WithinBound(s)
<1>1. ASSUME s \in TopicStats PROVE s \in Stats /\ WithinBound(s)
  BY <1>1, TimesAssumption DEF TopicStats, Stats, WithinBound
<1>2. ASSUME s \in Stats, WithinBound(s) PROVE s \in TopicStats
  BY <1>2, TimesAssumption DEF TopicStats, Stats, WithinBound
<1>. QED  BY <1>1, <1>2

(* TopicStats::default.                                                    *)
LEMMA NewStats ==
  /\ NewTopicStats \in Stats /\ WithinBound(NewTopicStats)
  /\ ~NewTopicStats.inMesh /\ ~NewTopicStats.active
  /\ NewTopicStats.first = 0 /\ NewTopicStats.mesh = 0
BY TimesAssumption DEF NewTopicStats, Stats, WithinBound

(* A deficit is not negative.                                              *)
LEMMA DeficitNat ==
  ASSUME NEW s \in Stats, NEW r \in Params
  PROVE  Deficit(s, r) \in Nat
<1>1. r.threshold - s.mesh \in Int
  BY StatsFields, ParamsNat
<1>2. Square(r.threshold - s.mesh) \in Nat
  BY <1>1, Arithmetic
<1>. QED  BY <1>2 DEF Deficit

(* The marks of messages.                                                  *)
LEMMA MarkFirstStats ==
  ASSUME NEW s \in Stats, NEW r \in Params
  PROVE  Alike(s, MarkFirst(s, r)) /\ (WithinBound(s) => WithinBound(MarkFirst(s, r)))
<1>. DEFINE f == AtMost(s.first + 1, r.firstCap)
            g == IF s.inMesh THEN AtMost(s.mesh + 1, r.meshCap) ELSE s.mesh
<1>0. /\ s.first + 1 \in Nat /\ s.mesh \in Nat /\ s.mesh + 1 \in Nat
      /\ r.firstCap \in Nat /\ r.meshCap \in Nat
  BY StatsFields, ParamsNat
<1>1. f \in Nat /\ g \in Nat
  BY <1>0 DEF AtMost
<1>2. MarkFirst(s, r) = [s EXCEPT !.first = f, !.mesh = g]
  BY Zenon DEF MarkFirst
<1>. HIDE DEF f, g
<1>3. LET e == [s EXCEPT !.first = f, !.mesh = g]
      IN /\ e \in Stats /\ e.inMesh = s.inMesh /\ e.active = s.active
         /\ e.failure = s.failure /\ e.invalid = s.invalid
  BY <1>1, Zenon DEF Stats
<1>. QED  BY <1>2, <1>3, Zenon DEF Alike, WithinBound

(* As above, for a duplicate.                                              *)
LEMMA MarkDuplicateStats ==
  ASSUME NEW s \in Stats, NEW r \in Params
  PROVE  /\ Alike(s, MarkDuplicate(s, r))
         /\ WithinBound(s) => WithinBound(MarkDuplicate(s, r))
<1>. DEFINE g == IF s.inMesh THEN AtMost(s.mesh + 1, r.meshCap) ELSE s.mesh
<1>0. s.mesh \in Nat /\ s.mesh + 1 \in Nat /\ r.meshCap \in Nat
  BY StatsFields, ParamsNat
<1>1. g \in Nat
  BY <1>0 DEF AtMost
<1>2. MarkDuplicate(s, r) = [s EXCEPT !.mesh = g]
  BY Zenon DEF MarkDuplicate
<1>. HIDE DEF g
<1>3. LET e == [s EXCEPT !.mesh = g]
      IN /\ e \in Stats /\ e.inMesh = s.inMesh /\ e.active = s.active
         /\ e.failure = s.failure /\ e.invalid = s.invalid
  BY <1>1, Zenon DEF Stats
<1>. QED  BY <1>2, <1>3, Zenon DEF Alike, WithinBound

(* As above, for an invalid message.                                       *)
LEMMA MarkInvalidStats ==
  ASSUME NEW s \in Stats
  PROVE  Alike(s, MarkInvalid(s))
<1>1. s.invalid + 1 \in Nat
  BY StatsFields
<1>2. LET e == [s EXCEPT !.invalid = s.invalid + 1]
      IN e \in Stats /\ e.inMesh = s.inMesh /\ e.active = s.active
  <2>. DEFINE n == s.invalid + 1
  <2>1. n \in Nat
    BY <1>1
  <2>. HIDE DEF n
  <2>2. LET e == [s EXCEPT !.invalid = n]
        IN e \in Stats /\ e.inMesh = s.inMesh /\ e.active = s.active
    BY <2>1, Zenon DEF Stats
  <2>. QED  BY <2>2, Zenon DEF n
<1>. QED  BY <1>2, Zenon DEF MarkInvalid, Alike

(* A peer is grafted.                                                      *)
LEMMA GraftStats ==
  ASSUME NEW s \in Stats
  PROVE  LET e == [s EXCEPT !.inMesh = TRUE, !.graft = 0, !.time = 0, !.active = FALSE]
         IN e \in Stats /\ ~e.active
<1>1. 0 \in 0..MaxAge
  BY TimesAssumption
<1>. QED  BY <1>1, Zenon DEF Stats

(* A peer is pruned: it is charged n.                                      *)
LEMMA PruneStats ==
  ASSUME NEW s \in Stats, NEW n \in Nat
  PROVE  LET e == [s EXCEPT !.failure = n, !.inMesh = FALSE, !.graft = 0, !.time = 0,
                            !.active = FALSE]
         IN e \in Stats /\ ~e.active /\ ~e.inMesh
<1>1. 0 \in 0..MaxAge
  BY TimesAssumption
<1>. QED  BY <1>1, Zenon DEF Stats

(* A peer leaves and its statistics are retained.                          *)
LEMMA RetiredStats ==
  ASSUME NEW s \in Stats, NEW r \in Params \cup {NoParams}
  PROVE  Retired(s, r) \in Stats /\ ~Retired(s, r).inMesh /\ ~Retired(s, r).active
<1>. DEFINE n == s.failure + IF r # NoParams /\ s.inMesh THEN Deficit(s, r) ELSE 0
<1>1. n \in Nat
  BY StatsFields, DeficitNat
<1>2. Retired(s, r) = [s EXCEPT !.first = 0, !.inMesh = FALSE, !.graft = 0, !.time = 0,
                                !.active = FALSE, !.failure = n]
  BY Zenon DEF Retired
<1>. HIDE DEF n
<1>3. 0 \in 0..MaxAge /\ 0 \in Nat
  BY TimesAssumption
<1>4. LET e == [s EXCEPT !.first = 0, !.inMesh = FALSE, !.graft = 0, !.time = 0,
                         !.active = FALSE, !.failure = n]
      IN e \in Stats /\ ~e.inMesh /\ ~e.active
  BY <1>1, <1>3, Zenon DEF Stats
<1>. QED  BY <1>2, <1>4, Zenon

(* Caps are lowered.                                                       *)
LEMMA LoweredStats ==
  ASSUME NEW s \in Stats, NEW old \in Params \cup {NoParams}, NEW new \in Params
  PROVE  /\ Alike(s, Lowered(s, old, new))
         /\ WithinBound(s) => WithinBound(Lowered(s, old, new))
         /\ s.first = 0 /\ s.mesh = 0 => Lowered(s, old, new) = s
<1>1. CASE old = NoParams
  BY <1>1, Zenon DEF Lowered, Alike
<1>2. CASE old # NoParams
  <2>. DEFINE f == IF old.firstCap > new.firstCap THEN AtMost(s.first, new.firstCap)
                   ELSE s.first
              g == IF old.meshCap > new.meshCap THEN AtMost(s.mesh, new.meshCap)
                   ELSE s.mesh
  <2>1. f \in Nat /\ g \in Nat /\ (s.first = 0 => f = 0) /\ (s.mesh = 0 => g = 0)
    BY <1>2, StatsFields, ParamsNat DEF AtMost
  <2>2. Lowered(s, old, new) = [s EXCEPT !.first = f, !.mesh = g]
    BY <1>2, Zenon DEF Lowered
  <2>. HIDE DEF f, g
  <2>3. LET e == [s EXCEPT !.first = f, !.mesh = g]
        IN /\ e \in Stats /\ e.inMesh = s.inMesh /\ e.active = s.active
           /\ e.failure = s.failure /\ e.invalid = s.invalid
    BY <2>1, Zenon DEF Stats
  <2>4. [s EXCEPT !.first = s.first, !.mesh = s.mesh] = s
    BY Zenon DEF Stats
  <2>5. ASSUME s.first = 0, s.mesh = 0 PROVE f = s.first /\ g = s.mesh
    BY <2>1, <2>5
  <2>. QED  BY <2>2, <2>3, <2>4, <2>5, Zenon DEF Alike, WithinBound
<1>. QED  BY <1>1, <1>2

(* A refresh.                                                              *)
LEMMA RefreshedStats ==
  ASSUME NEW s \in Stats, NEW r \in Params \cup {NoParams}
  PROVE  /\ Refreshed(s, r) \in Stats
         /\ Refreshed(s, r).inMesh = s.inMesh
         /\ (s.active => s.inMesh) => (Refreshed(s, r).active => s.inMesh)
         /\ WithinBound(s) => WithinBound(Refreshed(s, r))
<1>1. CASE r = NoParams
  BY <1>1, Zenon DEF Refreshed
<1>2. CASE r # NoParams
  <2>. DEFINE f == Decay(s.first, r.firstDecay)
              g == Decay(s.mesh, r.meshDecay)
              h == Decay(s.failure, r.failureDecay)
              k == Decay(s.invalid, r.invalidDecay)
              u == IF s.inMesh THEN s.graft ELSE s.time
              a == s.active \/ (s.inMesh /\ s.graft > r.activation)
  <2>1. /\ f \in Nat /\ g \in Nat /\ h \in Nat /\ k \in Nat
        /\ h <= s.failure /\ k <= s.invalid
    BY <1>2, StatsFields, ParamsNat, Arithmetic
  <2>2. u \in 0..MaxAge /\ a \in BOOLEAN
    BY StatsFields
  <2>3. (s.active => s.inMesh) => (a => s.inMesh)
    BY Zenon
  <2>4. Refreshed(s, r) = [s EXCEPT !.first = f, !.mesh = g, !.failure = h, !.invalid = k,
                                    !.time = u, !.active = a]
    BY <1>2, Zenon DEF Refreshed
  <2>. HIDE DEF f, g, h, k, u, a
  <2>5. LET e == [s EXCEPT !.first = f, !.mesh = g, !.failure = h, !.invalid = k,
                           !.time = u, !.active = a]
        IN e \in Stats /\ e.inMesh = s.inMesh /\ e.active = a
           /\ e.failure = h /\ e.invalid = k
    BY <2>1, <2>2, Zenon DEF Stats
  <2>6. s.failure \in Nat /\ s.invalid \in Nat /\ MaxCount \in Nat
    BY StatsFields, TimesAssumption
  <2>7. s.failure <= MaxCount => h <= MaxCount
    BY <2>1, <2>6
  <2>8. s.invalid <= MaxCount => k <= MaxCount
    BY <2>1, <2>6
  <2>. QED  BY <2>3, <2>4, <2>5, <2>7, <2>8, Zenon DEF WithinBound
<1>. QED  BY <1>1, <1>2

(* Time passes for a peer in the mesh.                                     *)
LEMMA TickedStats ==
  ASSUME NEW s \in Stats
  PROVE  LET e == [s EXCEPT !.graft = IF s.inMesh THEN AtMost(@ + 1, MaxAge) ELSE @]
         IN Alike(s, e) /\ (WithinBound(s) => WithinBound(e)) /\ (~s.inMesh => e = s)
<1>. DEFINE n == IF s.inMesh THEN AtMost(s.graft + 1, MaxAge) ELSE s.graft
<1>1. n \in 0..MaxAge
  BY StatsFields, TimesAssumption DEF AtMost
<1>2. ~s.inMesh => n = s.graft
  BY Zenon
<1>3. [s EXCEPT !.graft = IF s.inMesh THEN AtMost(@ + 1, MaxAge) ELSE @]
        = [s EXCEPT !.graft = n]
  BY Zenon
<1>. HIDE DEF n
<1>4. LET e == [s EXCEPT !.graft = n]
      IN /\ e \in Stats /\ e.inMesh = s.inMesh /\ e.active = s.active
         /\ e.failure = s.failure /\ e.invalid = s.invalid
  BY <1>1, Zenon DEF Stats
<1>5. [s EXCEPT !.graft = s.graft] = s
  BY Zenon DEF Stats
<1>. QED  BY <1>2, <1>3, <1>4, <1>5, Zenon DEF Alike, WithinBound

-----------------------------------------------------------------------------
(* The statistics of all peers and topics.                                 *)

TopicsType ==
  /\ topics \in Table
  /\ params \in [Topics -> Params \cup {NoParams}]

(* Statistics that are not in use are the initial ones.                    *)
Unused == \A p \in Peers \ peers : topics[p] = [t \in Topics |-> NewTopicStats]

Bounded == \A p \in Peers, t \in Topics : WithinBound(topics[p][t])

TopicInv == TopicsType /\ Unused /\ Bounded /\ DeficitCharged

(* A step that puts nobody into a mesh.                                    *)
Calm ==
  /\ topics' \in Table
  /\ \A p \in Peers, t \in Topics :
       /\ topics'[p][t].inMesh => topics[p][t].inMesh
       /\ (topics[p][t].active => topics[p][t].inMesh)
            => (topics'[p][t].active => topics'[p][t].inMesh)

(* The marks of a message reach peers that have statistics, and only the   *)
(* statistics of its topic.                                                *)
Touched(f, g, P, t) ==
  /\ g \in Table
  /\ \A p \in Peers, u \in Topics : Alike(f[p][u], g[p][u])
  /\ \A p \in Peers : p \notin peers \/ p \notin P => g[p] = f[p]
  /\ \A p \in Peers, u \in Topics : u # t => g[p][u] = f[p][u]

(* The parameters of a scored topic are valid.                             *)
LEMMA ScoredParams ==
  ASSUME TopicsType, NEW t \in Topics
  PROVE  Scored(t) => params[t] \in Params
BY DEF TopicsType, Scored

(* First deliveries.                                                       *)
LEMMA MarkedFirst ==
  ASSUME TopicsType, NEW f \in Table, NEW P, NEW t \in Topics
  PROVE  /\ Touched(f, Marked(f, P, t, MarkFirst), P, t)
         /\ \A p \in Peers, u \in Topics :
              WithinBound(f[p][u]) => WithinBound(Marked(f, P, t, MarkFirst)[p][u])
<1>. DEFINE g == Marked(f, P, t, MarkFirst)
<1>1. g = [p \in Peers |-> IF p \in Reached(P, t)
                           THEN [f[p] EXCEPT ![t] = MarkFirst(f[p][t], params[t])]
                           ELSE f[p]]
  BY DEF Marked
<1>. HIDE DEF g
<1>2. \A p \in Reached(P, t) : p \in P /\ p \in peers /\ params[t] \in Params
  BY ScoredParams DEF Reached
<1>3. ASSUME NEW p \in Peers, p \in Reached(P, t), NEW u \in Topics
      PROVE  /\ Alike(f[p][u], g[p][u])
             /\ WithinBound(f[p][u]) => WithinBound(g[p][u])
             /\ u # t => g[p][u] = f[p][u]
             /\ g[p] \in [Topics -> Stats]
  <2>1. f[p] \in [Topics -> Stats] /\ f[p][t] \in Stats /\ f[p][u] \in Stats
    BY DEF Table
  <2>2. /\ Alike(f[p][t], MarkFirst(f[p][t], params[t]))
        /\ WithinBound(f[p][t]) => WithinBound(MarkFirst(f[p][t], params[t]))
    BY <1>2, <1>3, <2>1, MarkFirstStats
  <2>3. g[p] = [f[p] EXCEPT ![t] = MarkFirst(f[p][t], params[t])]
    BY <1>1, <1>3
  <2>. QED  BY <2>1, <2>2, <2>3 DEF Alike
<1>4. ASSUME NEW p \in Peers, p \notin Reached(P, t)
      PROVE  g[p] = f[p] /\ \A u \in Topics : Alike(f[p][u], g[p][u])
  BY <1>1, <1>4 DEF Table, Alike
<1>5. g \in Table
  <2>1. ASSUME NEW p \in Peers PROVE g[p] \in [Topics -> Stats]
    BY <1>3, <1>4 DEF Table
  <2>. QED  BY <1>1, <2>1 DEF Table
<1>6. Touched(f, g, P, t)
  BY <1>2, <1>3, <1>4, <1>5 DEF Touched
<1>. QED  BY <1>3, <1>4, <1>6 DEF g

(* Duplicates.                                                             *)
LEMMA MarkedDuplicate ==
  ASSUME TopicsType, NEW f \in Table, NEW P, NEW t \in Topics
  PROVE  /\ Touched(f, Marked(f, P, t, MarkDuplicate), P, t)
         /\ \A p \in Peers, u \in Topics :
              WithinBound(f[p][u]) => WithinBound(Marked(f, P, t, MarkDuplicate)[p][u])
<1>. DEFINE g == Marked(f, P, t, MarkDuplicate)
<1>1. g = [p \in Peers |-> IF p \in Reached(P, t)
                           THEN [f[p] EXCEPT ![t] = MarkDuplicate(f[p][t], params[t])]
                           ELSE f[p]]
  BY DEF Marked
<1>. HIDE DEF g
<1>2. \A p \in Reached(P, t) : p \in P /\ p \in peers /\ params[t] \in Params
  BY ScoredParams DEF Reached
<1>3. ASSUME NEW p \in Peers, p \in Reached(P, t), NEW u \in Topics
      PROVE  /\ Alike(f[p][u], g[p][u])
             /\ WithinBound(f[p][u]) => WithinBound(g[p][u])
             /\ u # t => g[p][u] = f[p][u]
             /\ g[p] \in [Topics -> Stats]
  <2>1. f[p] \in [Topics -> Stats] /\ f[p][t] \in Stats /\ f[p][u] \in Stats
    BY DEF Table
  <2>2. /\ Alike(f[p][t], MarkDuplicate(f[p][t], params[t]))
        /\ WithinBound(f[p][t]) => WithinBound(MarkDuplicate(f[p][t], params[t]))
    BY <1>2, <1>3, <2>1, MarkDuplicateStats
  <2>3. g[p] = [f[p] EXCEPT ![t] = MarkDuplicate(f[p][t], params[t])]
    BY <1>1, <1>3
  <2>. QED  BY <2>1, <2>2, <2>3 DEF Alike
<1>4. ASSUME NEW p \in Peers, p \notin Reached(P, t)
      PROVE  g[p] = f[p] /\ \A u \in Topics : Alike(f[p][u], g[p][u])
  BY <1>1, <1>4 DEF Table, Alike
<1>5. g \in Table
  <2>1. ASSUME NEW p \in Peers PROVE g[p] \in [Topics -> Stats]
    BY <1>3, <1>4 DEF Table
  <2>. QED  BY <1>1, <2>1 DEF Table
<1>6. Touched(f, g, P, t)
  BY <1>2, <1>3, <1>4, <1>5 DEF Touched
<1>. QED  BY <1>3, <1>4, <1>6 DEF g

(* Invalid messages.                                                       *)
LEMMA MarkedInvalid ==
  ASSUME NEW f \in Table, NEW P, NEW t \in Topics
  PROVE  Touched(f, Marked(f, P, t, LAMBDA s, r : MarkInvalid(s)), P, t)
<1>. DEFINE g == Marked(f, P, t, LAMBDA s, r : MarkInvalid(s))
<1>1. g = [p \in Peers |-> IF p \in Reached(P, t)
                           THEN [f[p] EXCEPT ![t] = MarkInvalid(f[p][t])]
                           ELSE f[p]]
  BY DEF Marked
<1>. HIDE DEF g
<1>2. \A p \in Reached(P, t) : p \in P /\ p \in peers
  BY DEF Reached
<1>3. ASSUME NEW p \in Peers, p \in Reached(P, t), NEW u \in Topics
      PROVE  /\ Alike(f[p][u], g[p][u])
             /\ u # t => g[p][u] = f[p][u]
             /\ g[p] \in [Topics -> Stats]
  <2>1. f[p] \in [Topics -> Stats] /\ f[p][t] \in Stats /\ f[p][u] \in Stats
    BY DEF Table
  <2>2. Alike(f[p][t], MarkInvalid(f[p][t]))
    BY <2>1, MarkInvalidStats
  <2>3. g[p] = [f[p] EXCEPT ![t] = MarkInvalid(f[p][t])]
    BY <1>1, <1>3
  <2>. QED  BY <2>1, <2>2, <2>3 DEF Alike
<1>4. ASSUME NEW p \in Peers, p \notin Reached(P, t)
      PROVE  g[p] = f[p] /\ \A u \in Topics : Alike(f[p][u], g[p][u])
  BY <1>1, <1>4 DEF Table, Alike
<1>5. g \in Table
  <2>1. ASSUME NEW p \in Peers PROVE g[p] \in [Topics -> Stats]
    BY <1>3, <1>4 DEF Table
  <2>. QED  BY <1>1, <2>1 DEF Table
<1>6. Touched(f, g, P, t)
  BY <1>2, <1>3, <1>4, <1>5 DEF Touched
<1>. QED  BY <1>6 DEF g

(* A calm step keeps DeficitCharged while every connected peer remains     *)
(* connected.                                                              *)
LEMMA CalmStep ==
  ASSUME DeficitCharged, Calm, \A p \in Peers : Connected(p) => Connected(p)'
  PROVE  DeficitCharged'
BY DEF DeficitCharged, Calm

(* Marks are calm.                                                         *)
LEMMA TouchedCalm ==
  ASSUME TopicInv, NEW g, NEW P, NEW Q, NEW t \in Topics,
         Touched(topics, g, P, t), Touched(g, topics', Q, t),
         params' = params, peers' = peers, open' = open,
         \A p \in Peers : WithinBound(topics'[p][t])
  PROVE  TopicInv'
<1>1. ASSUME NEW p \in Peers, NEW u \in Topics
      PROVE  /\ topics'[p][u].inMesh = topics[p][u].inMesh
             /\ topics'[p][u].active = topics[p][u].active
             /\ u # t => topics'[p][u] = topics[p][u]
             /\ p \notin peers => topics'[p] = topics[p]
  BY DEF Touched, Alike
<1>2. TopicsType'
  BY DEF TopicInv, TopicsType, Touched
<1>3. Unused'
  <2>1. \A p \in Peers \ peers : topics'[p] = topics[p]
    BY DEF Touched
  <2>. QED  BY <2>1 DEF TopicInv, Unused
<1>4. Bounded'
  BY <1>1 DEF TopicInv, Bounded
<1>5. DeficitCharged'
  <2>1. Calm
    BY <1>1, <1>2 DEF Calm, TopicsType
  <2>2. \A p \in Peers : Connected(p) => Connected(p)'
    BY DEF Connected
  <2>. QED  BY <2>1, <2>2, CalmStep DEF TopicInv
<1>. QED  BY <1>2, <1>3, <1>4, <1>5 DEF TopicInv

(* Steps that leave the statistics alone.                                  *)
LEMMA TopicFrame ==
  ASSUME TopicInv, UNCHANGED <<topics, params>>, peers \subseteq peers',
         \A p \in Peers : Connected(p) => Connected(p)'
  PROVE  TopicInv'
BY DEF TopicInv, TopicsType, Unused, Bounded, DeficitCharged

(* A new connection, or another address.                                   *)
LEMMA TopicConnection ==
  ASSUME ConnInv, TopicInv, NEW p \in Peers, NEW a \in Addresses, NEW b \in Addresses,
         ConnectionEstablished(p, a) \/ AddressChange(p, a, b)
  PROVE  TopicInv'
<1>1. \A q \in Peers : Connected(q) => Connected(q)'
  <2>1. CASE ConnectionEstablished(p, a)
    <3>1. \A q \in Peers, c \in Addresses :
            open[q][c] \in Nat /\ open'[q][c] = IF q = p /\ c = a THEN open[q][c] + 1
                                                ELSE open[q][c]
      BY <2>1 DEF ConnInv, ConnType, ConnectionEstablished
    <3>. QED  BY <3>1 DEF Connected
  <2>2. CASE AddressChange(p, a, b)
    <3>1. /\ \A q \in Peers \ {p}, c \in Addresses : open'[q][c] = open[q][c]
          /\ open'[p][b] = open[p][b] + 1 /\ open[p][b] \in Nat
      BY <2>2 DEF ConnInv, ConnType, AddressChange
    <3>. QED  BY <3>1 DEF Connected
  <2>. QED  BY <2>1, <2>2
<1>2. UNCHANGED <<topics, params>> /\ peers \subseteq peers'
  BY DEF ConnectionEstablished, AddressChange, MarkConnected
<1>. QED  BY <1>1, <1>2, TopicFrame

(* A connection is closed: if it is the last one, the peer leaves every    *)
(* mesh of its statistics.                                                 *)
LEMMA TopicClosed ==
  ASSUME ConnInv, TopicInv, NEW p \in Peers, NEW a \in Addresses, ConnectionClosed(p, a)
  PROVE  TopicInv'
<1>0. /\ params' = params /\ p \in peers
      /\ \A t \in Topics : WithinBound(topics'[p][t])
  BY DEF ConnectionClosed, ConnInv, StatusFollows, Connected
<1>1. \A q \in Peers \ {p} : Connected(q) => Connected(q)'
  BY DEF ConnectionClosed, Connected, ConnInv, ConnType
<1>2. CASE \E b \in Addresses : open'[p][b] > 0
  <2>1. topics' = topics /\ peers' = peers
    BY <1>2 DEF ConnectionClosed, ForgetConnection, statVars
  <2>2. Connected(p)'
    BY <1>2 DEF Connected
  <2>. QED  BY <1>0, <1>1, <2>1, <2>2, TopicFrame
<1>3. CASE ~\E b \in Addresses : open'[p][b] > 0
  <2>1. RemovePeer(p, KnownWithout(p, a), PeerIpsWithout(p, a))
    BY <1>3 DEF ConnectionClosed, ForgetConnection
  <2>2. /\ \/ /\ peers' = peers \ {p}
              /\ topics' = [topics EXCEPT ![p] = [t \in Topics |-> NewTopicStats]]
           \/ /\ peers' = peers
              /\ topics' = [topics EXCEPT ![p] =
                              [t \in Topics |-> Retired(topics[p][t], params[t])]]
    BY <1>0, <2>1 DEF RemovePeer
  <2>3. topics \in Table /\ params \in [Topics -> Params \cup {NoParams}]
    BY DEF TopicInv, TopicsType
  <2>4. \A t \in Topics : topics[p][t] \in Stats
    BY <2>3 DEF Table
  <2>5. \A t \in Topics : /\ Retired(topics[p][t], params[t]) \in Stats
                          /\ ~Retired(topics[p][t], params[t]).inMesh
                          /\ ~Retired(topics[p][t], params[t]).active
    BY <2>3, <2>4, RetiredStats
  <2>6. /\ topics' \in Table
        /\ \A q \in Peers \ {p} : topics'[q] = topics[q]
        /\ \A t \in Topics : ~topics'[p][t].inMesh /\ ~topics'[p][t].active
    BY <2>2, <2>3, <2>5, NewStats DEF Table
  <2>7. Unused'
    <3>1. \A q \in Peers \ {p} : q \notin peers' => q \notin peers
      BY <2>2
    <3>2. p \notin peers' => topics'[p] = [t \in Topics |-> NewTopicStats]
      BY <1>0, <2>2, <2>3 DEF Table
    <3>. QED  BY <2>6, <3>1, <3>2 DEF TopicInv, Unused
  <2>8. Bounded'
    BY <1>0, <2>6 DEF TopicInv, Bounded
  <2>9. DeficitCharged'
    BY <1>1, <2>6 DEF TopicInv, DeficitCharged
  <2>. QED  BY <1>0, <2>3, <2>6, <2>7, <2>8, <2>9 DEF TopicInv, TopicsType
<1>. QED  BY <1>2, <1>3

(* GRAFT and PRUNE.                                                        *)
LEMMA TopicMesh ==
  ASSUME TopicInv, NEW p \in Peers, NEW t \in Topics, Graft(p, t) \/ Prune(p, t)
  PROVE  TopicInv'
<1>0. /\ params' = params /\ peers' = peers /\ open' = open /\ Connected(p)
  BY DEF Graft, Prune
<1>1. topics \in Table /\ topics[p][t] \in Stats
  BY DEF TopicInv, TopicsType, Table
<1>2. PICK s \in Stats : Update(p, t, s) /\ ~s.active
  <2>1. CASE Graft(p, t)
    <3>. DEFINE e == [topics[p][t] EXCEPT !.inMesh = TRUE, !.graft = 0,
                                          !.time = 0, !.active = FALSE]
    <3>1. e \in Stats /\ ~e.active
      BY <1>1, GraftStats, Zenon
    <3>2. Update(p, t, e)
      BY <2>1, Zenon DEF Graft
    <3>. QED  BY <3>1, <3>2, Zenon
  <2>2. CASE Prune(p, t)
    <3>. DEFINE n == topics[p][t].failure + Deficit(topics[p][t], params[t])
                e == [topics[p][t] EXCEPT !.failure = n, !.inMesh = FALSE, !.graft = 0,
                                          !.time = 0, !.active = FALSE]
    <3>1. params[t] \in Params
      BY <2>2, ScoredParams DEF Prune, TopicInv
    <3>2. topics[p][t].failure \in Nat /\ Deficit(topics[p][t], params[t]) \in Nat
      BY <1>1, <3>1, StatsFields, DeficitNat
    <3>3. n \in Nat
      BY <3>2
    <3>4. Update(p, t, e)
      BY <2>2, Zenon DEF Prune
    <3>. HIDE DEF n
    <3>5. e \in Stats /\ ~e.active
      BY <1>1, <3>3, PruneStats, Zenon
    <3>. QED  BY <3>4, <3>5, Zenon
  <2>. QED  BY <2>1, <2>2
<1>3. \/ topics' = topics
      \/ p \in peers /\ topics' = [topics EXCEPT ![p][t] = s] /\ WithinBound(s)
  BY <1>2 DEF Update
<1>4. CASE topics' = topics
  BY <1>0, <1>4, TopicFrame DEF Connected
<1>5. CASE p \in peers /\ topics' = [topics EXCEPT ![p][t] = s] /\ WithinBound(s)
  <2>1. /\ topics' \in Table
        /\ \A q \in Peers, u \in Topics :
             topics'[q][u] = IF q = p /\ u = t THEN s ELSE topics[q][u]
        /\ \A q \in Peers \ {p} : topics'[q] = topics[q]
    BY <1>1, <1>5 DEF Table
  <2>2. Unused'
    <3>1. \A q \in Peers \ peers' : topics'[q] = topics[q] /\ q \in Peers \ peers
      BY <1>0, <1>5, <2>1
    <3>. QED  BY <3>1, Zenon DEF TopicInv, Unused
  <2>3. Bounded'
    BY <1>5, <2>1 DEF TopicInv, Bounded
  <2>4. DeficitCharged'
    <3>1. \A q \in Peers : Connected(q)' <=> Connected(q)
      BY <1>0 DEF Connected
    <3>. QED  BY <1>0, <1>2, <2>1, <3>1 DEF TopicInv, DeficitCharged
  <2>. QED  BY <1>0, <2>1, <2>2, <2>3, <2>4 DEF TopicInv, TopicsType
<1>. QED  BY <1>3, <1>4, <1>5

(* A duplicate is marked.                                                  *)
LEMMA TopicDuplicated ==
  ASSUME TopicInv, NEW p \in Peers, NEW m \in Msgs, Duplicated(p, m)
  PROVE  TopicInv'
<1>. DEFINE t == TopicOf[m]
<1>1. t \in Topics /\ topics \in Table /\ TopicsType
  BY ParamsAssumption DEF TopicInv, TopicsType
<1>2. PICK good, bad :
        /\ good \subseteq {p} /\ bad \subseteq {p}
        /\ topics' = Marked(Marked(topics, good, t, MarkDuplicate),
                            bad, t, LAMBDA s, r : MarkInvalid(s))
        /\ WithinBound(topics'[p][t])
        /\ params' = params /\ peers' = peers /\ open' = open
  <2>. DEFINE new == p \notin Record(m).peers
              g == {q \in {p} : new /\ InWindow(m)}
              b == {q \in {p} : new /\ Record(m).status = "Invalid"}
  <2>1. g \subseteq {p} /\ b \subseteq {p}
    OBVIOUS
  <2>2. /\ topics' = Marked(Marked(topics, g, t, MarkDuplicate),
                            b, t, LAMBDA s, r : MarkInvalid(s))
        /\ WithinBound(topics'[p][t])
        /\ params' = params /\ peers' = peers /\ open' = open
    BY DEF Duplicated
  <2>. HIDE DEF g, b
  <2>. QED  BY <2>1, <2>2
<1>. DEFINE first == Marked(topics, good, t, MarkDuplicate)
<1>. HIDE DEF t
<1>3. Touched(topics, first, good, t)
  BY <1>1, MarkedDuplicate
<1>4. first \in Table
  BY <1>3 DEF Touched
<1>5. topics' = Marked(first, bad, t, LAMBDA s, r : MarkInvalid(s))
  BY <1>2
<1>. HIDE DEF first
<1>6. Touched(first, topics', bad, t)
  BY <1>1, <1>4, <1>5, MarkedInvalid
<1>7. \A q \in Peers : WithinBound(topics'[q][t])
  <2>1. \A q \in Peers \ {p} : topics'[q] = topics[q]
    BY <1>2, <1>3, <1>6 DEF Touched
  <2>. QED  BY <1>1, <1>2, <2>1 DEF TopicInv, Bounded
<1>. QED  BY <1>1, <1>2, <1>3, <1>6, <1>7, TouchedCalm

(* An accepted message is marked, and the duplicates that came before.     *)
LEMMA TopicAccept ==
  ASSUME TopicInv, NEW p \in Peers, NEW m \in Msgs, Accept(p, m)
  PROVE  TopicInv'
<1>. DEFINE t == TopicOf[m]
<1>1. t \in Topics /\ topics \in Table /\ TopicsType
  BY ParamsAssumption DEF TopicInv, TopicsType
<1>2. PICK late : topics' = Marked(Marked(topics, {p}, t, MarkFirst), late, t, MarkDuplicate)
  BY DEF Accept
<1>3. params' = params /\ peers' = peers /\ open' = open
  BY DEF Accept
<1>. DEFINE first == Marked(topics, {p}, t, MarkFirst)
<1>. HIDE DEF t
<1>4. /\ Touched(topics, first, {p}, t)
      /\ \A q \in Peers, u \in Topics : WithinBound(topics[q][u]) => WithinBound(first[q][u])
  BY <1>1, MarkedFirst
<1>5. first \in Table
  BY <1>4 DEF Touched
<1>6. topics' = Marked(first, late, t, MarkDuplicate)
  BY <1>2
<1>. HIDE DEF first
<1>7. /\ Touched(first, topics', late, t)
      /\ \A q \in Peers, u \in Topics : WithinBound(first[q][u]) => WithinBound(topics'[q][u])
  BY <1>1, <1>5, <1>6, MarkedDuplicate
<1>8. \A q \in Peers : WithinBound(topics'[q][t])
  BY <1>1, <1>4, <1>7 DEF TopicInv, Bounded
<1>. QED  BY <1>1, <1>3, <1>4, <1>7, <1>8, TouchedCalm

(* An invalid message is marked.                                           *)
LEMMA TopicReject ==
  ASSUME TopicInv, NEW p \in Peers, NEW m \in Msgs,
         NEW verdict \in {"Invalid", "Ignored"}, Reject(p, m, verdict)
  PROVE  TopicInv'
<1>. DEFINE t == TopicOf[m]
<1>1. t \in Topics /\ topics \in Table
  BY ParamsAssumption DEF TopicInv, TopicsType
<1>2. PICK guilty, twice :
        topics' = Marked(Marked(topics, guilty, t, LAMBDA s, r : MarkInvalid(s)),
                         twice, t, LAMBDA s, r : MarkInvalid(s))
  BY DEF Reject
<1>3. /\ params' = params /\ peers' = peers /\ open' = open
      /\ \A q \in Peers : WithinBound(topics'[q][t])
  BY DEF Reject
<1>. DEFINE first == Marked(topics, guilty, t, LAMBDA s, r : MarkInvalid(s))
<1>. HIDE DEF t
<1>4. Touched(topics, first, guilty, t)
  BY <1>1, MarkedInvalid
<1>5. first \in Table
  BY <1>4 DEF Touched
<1>6. topics' = Marked(first, twice, t, LAMBDA s, r : MarkInvalid(s))
  BY <1>2
<1>. HIDE DEF first
<1>7. Touched(first, topics', twice, t)
  BY <1>1, <1>5, <1>6, MarkedInvalid
<1>. QED  BY <1>1, <1>3, <1>4, <1>7, TouchedCalm

(* A message that cannot be valid is marked.                               *)
LEMMA TopicRejectInvalid ==
  ASSUME TopicInv, NEW p \in Peers, NEW t \in Topics, RejectInvalid(p, t)
  PROVE  TopicInv'
<1>1. /\ topics' = Marked(topics, {p}, t, LAMBDA s, r : MarkInvalid(s))
      /\ WithinBound(topics'[p][t])
      /\ params' = params /\ peers' = peers /\ open' = open
  BY DEF RejectInvalid
<1>2. topics \in Table
  BY DEF TopicInv, TopicsType
<1>3. Touched(topics, topics', {p}, t)
  BY <1>1, <1>2, MarkedInvalid
<1>4. Touched(topics, topics, {p}, t)
  BY <1>2 DEF Touched, Alike, Table
<1>5. \A q \in Peers : WithinBound(topics'[q][t])
  <2>1. \A q \in Peers \ {p} : topics'[q] = topics[q]
    BY <1>3 DEF Touched
  <2>. QED  BY <1>1, <2>1 DEF TopicInv, Bounded
<1>. QED  BY <1>1, <1>3, <1>4, <1>5, TouchedCalm

(* The application changes the parameters of a topic.                      *)
LEMMA TopicSetParams ==
  ASSUME TopicInv, NEW t \in Topics, NEW r \in ParamChoices, SetTopicParams(t, r)
  PROVE  TopicInv'
<1>1. /\ params' = [params EXCEPT ![t] = r]
      /\ topics' = [p \in Peers |-> [topics[p] EXCEPT ![t] =
                                       Lowered(topics[p][t], params[t], r)]]
      /\ peers' = peers /\ open' = open
  BY DEF SetTopicParams
<1>2. /\ r \in Params /\ topics \in Table
      /\ params \in [Topics -> Params \cup {NoParams}]
  BY ParamsAssumption DEF TopicInv, TopicsType, Params
<1>3. ASSUME NEW p \in Peers
      PROVE  /\ topics[p] \in [Topics -> Stats]
             /\ Alike(topics[p][t], Lowered(topics[p][t], params[t], r))
             /\ WithinBound(Lowered(topics[p][t], params[t], r))
             /\ topics[p][t] = NewTopicStats
                  => Lowered(topics[p][t], params[t], r) = NewTopicStats
  <2>1. topics[p] \in [Topics -> Stats] /\ topics[p][t] \in Stats
    BY <1>2 DEF Table
  <2>2. params[t] \in Params \cup {NoParams} /\ WithinBound(topics[p][t])
    BY <1>2 DEF TopicInv, Bounded
  <2>. QED  BY <1>2, <2>1, <2>2, LoweredStats, NewStats
<1>4. ASSUME NEW p \in Peers, NEW u \in Topics
      PROVE  topics'[p][u] = IF u = t THEN Lowered(topics[p][t], params[t], r)
                             ELSE topics[p][u]
  BY <1>1, <1>3
<1>5. topics' \in Table
  <2>1. \A p \in Peers : Lowered(topics[p][t], params[t], r) \in Stats
    BY <1>3 DEF Alike
  <2>2. \A p \in Peers : [topics[p] EXCEPT ![t] = Lowered(topics[p][t], params[t], r)]
                           \in [Topics -> Stats]
    BY <1>3, <2>1
  <2>. QED  BY <1>1, <2>2 DEF Table
<1>6. TopicsType'
  BY <1>1, <1>2, <1>5 DEF TopicsType
<1>7. Unused'
  <2>1. ASSUME NEW p \in Peers, p \notin peers
        PROVE  topics'[p] = [u \in Topics |-> NewTopicStats]
    <3>1. topics[p] = [u \in Topics |-> NewTopicStats]
      BY <2>1 DEF TopicInv, Unused
    <3>2. topics[p][t] = NewTopicStats
      BY <3>1
    <3>3. Lowered(topics[p][t], params[t], r) = NewTopicStats
      BY <1>3, <3>2
    <3>4. topics'[p] = [topics[p] EXCEPT ![t] = NewTopicStats]
      BY <1>1, <3>3
    <3>. QED  BY <3>1, <3>4
  <2>. QED  BY <1>1, <2>1 DEF Unused
<1>8. Bounded'
  BY <1>3, <1>4 DEF TopicInv, Bounded
<1>9. DeficitCharged'
  <2>1. Calm
    BY <1>3, <1>4, <1>5 DEF Calm, Alike
  <2>2. \A p \in Peers : Connected(p) => Connected(p)'
    BY <1>1 DEF Connected
  <2>. QED  BY <2>1, <2>2, CalmStep DEF TopicInv
<1>. QED  BY <1>6, <1>7, <1>8, <1>9 DEF TopicInv

(* A refresh.                                                              *)
LEMMA TopicRefresh ==
  ASSUME TopicInv, Refresh
  PROVE  TopicInv'
<1>1. /\ peers' = peers \ Expired /\ params' = params /\ open' = open
      /\ topics' = [p \in Peers |-> [t \in Topics |->
           IF p \in Expired THEN NewTopicStats
           ELSE IF p \in peers /\ gone[p] = 0
                THEN Refreshed(topics[p][t], params[t]) ELSE topics[p][t]]]
  BY DEF Refresh
<1>2. topics \in Table /\ params \in [Topics -> Params \cup {NoParams}]
  BY DEF TopicInv, TopicsType
<1>3. ASSUME NEW p \in Peers, NEW t \in Topics
      PROVE  /\ topics'[p][t] \in Stats /\ WithinBound(topics'[p][t])
             /\ topics'[p][t].inMesh => topics[p][t].inMesh
             /\ topics'[p][t].active => topics'[p][t].inMesh
  <2>1. /\ topics[p][t] \in Stats /\ params[t] \in Params \cup {NoParams}
        /\ WithinBound(topics[p][t]) /\ (topics[p][t].active => topics[p][t].inMesh)
    BY <1>2 DEF Table, TopicInv, Bounded, DeficitCharged
  <2>2. topics'[p][t] \in {NewTopicStats, Refreshed(topics[p][t], params[t]), topics[p][t]}
    BY <1>1
  <2>3. LET s == Refreshed(topics[p][t], params[t])
        IN /\ s \in Stats /\ WithinBound(s) /\ s.inMesh = topics[p][t].inMesh
           /\ s.active => topics[p][t].inMesh
    BY <2>1, RefreshedStats, Zenon
  <2>. QED  BY <2>1, <2>2, <2>3, NewStats, Zenon
<1>4. TopicsType'
  <2>1. topics' \in Table
    BY <1>1, <1>3 DEF Table
  <2>. QED  BY <1>1, <1>2, <2>1 DEF TopicsType
<1>5. Unused'
  <2>1. ASSUME NEW p \in Peers, p \notin peers'
        PROVE  topics'[p] = [t \in Topics |-> NewTopicStats]
    <3>1. CASE p \in Expired
      BY <1>1, <3>1
    <3>2. CASE p \notin Expired
      <4>1. p \notin peers
        BY <1>1, <2>1, <3>2
      <4>2. topics[p] = [t \in Topics |-> NewTopicStats]
        BY <4>1 DEF TopicInv, Unused
      <4>3. topics'[p] = [t \in Topics |-> topics[p][t]]
        BY <1>1, <3>2, <4>1
      <4>. QED  BY <4>2, <4>3
    <3>. QED  BY <3>1, <3>2
  <2>. QED  BY <2>1 DEF Unused
<1>6. Bounded'
  BY <1>3 DEF Bounded
<1>7. DeficitCharged'
  <2>1. Calm
    BY <1>3, <1>4 DEF Calm, TopicsType
  <2>2. \A p \in Peers : Connected(p) => Connected(p)'
    BY <1>1 DEF Connected
  <2>. QED  BY <2>1, <2>2, CalmStep DEF TopicInv
<1>. QED  BY <1>4, <1>5, <1>6, <1>7 DEF TopicInv

(* Time passes.                                                            *)
LEMMA TopicTick ==
  ASSUME TopicInv, Tick
  PROVE  TopicInv'
<1>. DEFINE Ticked(s) == [s EXCEPT !.graft = IF s.inMesh THEN AtMost(@ + 1, MaxAge) ELSE @]
<1>1. /\ peers' = peers /\ params' = params /\ open' = open
      /\ topics' = [p \in Peers |-> [t \in Topics |-> Ticked(topics[p][t])]]
  BY Zenon DEF Tick
<1>2. topics \in Table
  BY DEF TopicInv, TopicsType
<1>3. ASSUME NEW s \in Stats
      PROVE  /\ Alike(s, Ticked(s)) /\ (WithinBound(s) => WithinBound(Ticked(s)))
             /\ ~s.inMesh => Ticked(s) = s
  BY TickedStats, Zenon
<1>. HIDE DEF Ticked
<1>4. ASSUME NEW p \in Peers, NEW t \in Topics
      PROVE  Alike(topics[p][t], topics'[p][t]) /\ WithinBound(topics'[p][t])
  <2>1. topics[p][t] \in Stats /\ WithinBound(topics[p][t])
    BY <1>2 DEF Table, TopicInv, Bounded
  <2>2. topics'[p][t] = Ticked(topics[p][t])
    BY <1>1
  <2>. QED  BY <1>3, <2>1, <2>2
<1>5. TopicsType'
  <2>1. topics' \in Table
    BY <1>1, <1>4 DEF Table, Alike
  <2>. QED  BY <1>1, <2>1 DEF TopicInv, TopicsType
<1>6. Unused'
  <2>1. ASSUME NEW p \in Peers, p \notin peers
        PROVE  topics'[p] = [t \in Topics |-> NewTopicStats]
    <3>1. topics[p] = [t \in Topics |-> NewTopicStats]
      BY <2>1 DEF TopicInv, Unused
    <3>2. Ticked(NewTopicStats) = NewTopicStats
      BY <1>3, NewStats
    <3>. QED  BY <1>1, <3>1, <3>2
  <2>. QED  BY <1>1, <2>1 DEF Unused
<1>7. Bounded'
  BY <1>4 DEF Bounded
<1>8. DeficitCharged'
  <2>1. Calm
    BY <1>4, <1>5 DEF Calm, Alike, TopicsType
  <2>2. \A p \in Peers : Connected(p) => Connected(p)'
    BY <1>1 DEF Connected
  <2>. QED  BY <2>1, <2>2, CalmStep DEF TopicInv
<1>. QED  BY <1>5, <1>6, <1>7, <1>8 DEF TopicInv

(* Every step keeps the statistics in order.                               *)
LEMMA TopicStep == ConnInv /\ TopicInv /\ [Next]_vars => TopicInv'
<1>. SUFFICES ASSUME ConnInv, TopicInv, [Next]_vars PROVE TopicInv'
  OBVIOUS
<1>0. ASSUME UNCHANGED <<open, peers, topics, params>> PROVE TopicInv'
  <2>1. \A p \in Peers : Connected(p) => Connected(p)'
    BY <1>0 DEF Connected
  <2>. QED  BY <1>0, <2>1, TopicFrame
<1>1. ASSUME NEW p \in Peers, ConnectionStep(p) PROVE TopicInv'
  BY <1>1, TopicConnection, TopicClosed DEF ConnectionStep
<1>2. ASSUME NEW p \in Peers, MeshStep(p) PROVE TopicInv'
  BY <1>2, TopicMesh DEF MeshStep
<1>3. ASSUME NEW p \in Peers, MessageStep(p) PROVE TopicInv'
  <2>1. ASSUME NEW m \in Msgs, Received(p, m) PROVE TopicInv'
    BY <1>0, <2>1 DEF Received, statVars
  <2>. QED  BY <1>3, <2>1, TopicDuplicated, TopicAccept, TopicReject, TopicRejectInvalid
            DEF MessageStep
<1>4. ASSUME NEW p \in Peers, ApplicationStep(p) PROVE TopicInv'
  BY <1>0, <1>4 DEF ApplicationStep, AddPenalty, SetApplicationScore
<1>5. CASE UNCHANGED vars
  BY <1>0, <1>5 DEF vars, statVars
<1>. QED  BY <1>1, <1>2, <1>3, <1>4, <1>5, TopicSetParams, TopicRefresh, TopicTick DEF Next

(* At the start all statistics are the initial ones.                       *)
LEMMA TopicInit == Init => TopicInv
<1>. SUFFICES ASSUME Init PROVE TopicInv
  OBVIOUS
<1>1. topics = [p \in Peers |-> [t \in Topics |-> NewTopicStats]] /\ params = InitialParams
  BY DEF Init
<1>2. TopicsType
  BY <1>1, NewStats, ParamsAssumption DEF TopicsType, Table, Params
<1>3. Unused /\ Bounded /\ DeficitCharged
  BY <1>1, NewStats DEF Unused, Bounded, DeficitCharged
<1>. QED  BY <1>2, <1>3 DEF TopicInv

(* Nobody escapes the charge for a delivery deficit: one is pending only   *)
(* for a peer in the mesh, and only connected peers are in it.             *)
THEOREM DeficitsAreCharged == Spec => []DeficitCharged
<1>1. TopicInv => DeficitCharged
  BY DEF TopicInv
<1>. QED  BY <1>1, ConnInit, ConnStep, TopicInit, TopicStep, PTL DEF Spec

-----------------------------------------------------------------------------
(* The rest of the type invariant.                                         *)

RestInv ==
  /\ gone \in [Peers -> 0..(Global.retainScore + 2)]
  /\ penalty \in [Peers -> 0..MaxPenalty] /\ app \in [Peers -> Int]
  /\ \A p \in Peers \ peers : gone[p] = 0 /\ penalty[p] = 0 /\ app[p] = 0

(* A connection is closed.                                                 *)
LEMMA RestClosed ==
  ASSUME ConnInv, RestInv, NEW p \in Peers, NEW a \in Addresses, ConnectionClosed(p, a)
  PROVE  RestInv'
<1>1. CASE \E b \in Addresses : open'[p][b] > 0
  BY <1>1 DEF ConnectionClosed, ForgetConnection, statVars, RestInv
<1>2. CASE ~\E b \in Addresses : open'[p][b] > 0
  <2>1. RemovePeer(p, KnownWithout(p, a), PeerIpsWithout(p, a))
    BY <1>2 DEF ConnectionClosed, ForgetConnection
  <2>2. \/ /\ peers' = peers \ {p}
           /\ penalty' = [penalty EXCEPT ![p] = 0]
           /\ app' = [app EXCEPT ![p] = 0]
           /\ gone' = [gone EXCEPT ![p] = 0]
        \/ /\ gone' = IF p \in peers THEN [gone EXCEPT ![p] = 1] ELSE gone
           /\ UNCHANGED <<peers, penalty, app>>
    BY <2>1 DEF RemovePeer
  <2>. QED  BY <2>2, RetainNat, TimesAssumption DEF RestInv
<1>. QED  BY <1>1, <1>2

(* Every step keeps it.                                                    *)
LEMMA RestStep == ConnInv /\ RestInv /\ [Next]_vars => RestInv'
<1>. SUFFICES ASSUME ConnInv, RestInv, [Next]_vars PROVE RestInv'
  OBVIOUS
<1>0. ASSUME UNCHANGED <<peers, gone, penalty, app>> PROVE RestInv'
  BY <1>0 DEF RestInv
<1>1. ASSUME NEW p \in Peers, ConnectionStep(p) PROVE RestInv'
  <2>1. ASSUME NEW a \in Addresses, ConnectionEstablished(p, a) PROVE RestInv'
    BY <2>1, RetainNat DEF ConnectionEstablished, MarkConnected, RestInv
  <2>2. ASSUME NEW a \in Addresses, NEW b \in Addresses, AddressChange(p, a, b)
        PROVE  RestInv'
    BY <2>2, RetainNat DEF AddressChange, MarkConnected, RestInv
  <2>. QED  BY <1>1, <2>1, <2>2, RestClosed DEF ConnectionStep
<1>2. ASSUME NEW p \in Peers, MeshStep(p) PROVE RestInv'
  BY <1>0, <1>2 DEF MeshStep, Graft, Prune
<1>3. ASSUME NEW p \in Peers, MessageStep(p) PROVE RestInv'
  BY <1>0, <1>3 DEF MessageStep, Received, Duplicated, Accept, Reject, RejectInvalid, statVars
<1>4. ASSUME NEW p \in Peers, ApplicationStep(p) PROVE RestInv'
  <2>1. CASE AddPenalty(p)
    BY <2>1, TimesAssumption DEF AddPenalty, RestInv
  <2>2. ASSUME NEW n \in AppScores, SetApplicationScore(p, n) PROVE RestInv'
    BY <2>2, ParamsAssumption DEF SetApplicationScore, RestInv
  <2>. QED  BY <1>4, <2>1, <2>2 DEF ApplicationStep
<1>5. ASSUME NEW t \in Topics, NEW r \in ParamChoices, SetTopicParams(t, r)
      PROVE  RestInv'
  BY <1>0, <1>5 DEF SetTopicParams
<1>6. CASE Refresh
  <2>1. \A p \in Peers : Decay(penalty[p], Global.penaltyDecay) \in 0..MaxPenalty
    <3>1. Global.penaltyDecay \in 0..100
      BY ParamsAssumption DEF IsGlobalParams
    <3>2. \A p \in Peers : penalty[p] \in Nat /\ penalty[p] <= MaxPenalty /\ MaxPenalty \in Nat
      BY TimesAssumption DEF RestInv
    <3>3. \A p \in Peers : LET d == Decay(penalty[p], Global.penaltyDecay)
                           IN d \in Nat /\ d <= penalty[p]
      BY <3>1, <3>2, Arithmetic
    <3>4. \A d, n, c \in Nat : d <= n /\ n <= c => d \in 0..c
      OBVIOUS
    <3>. QED  BY <3>2, <3>3, <3>4
  <2>2. /\ peers' = peers \ Expired
        /\ penalty' = [p \in Peers |-> IF p \in Expired THEN 0
                        ELSE IF p \in peers /\ gone[p] = 0
                             THEN Decay(penalty[p], Global.penaltyDecay) ELSE penalty[p]]
        /\ app' = [p \in Peers |-> IF p \in Expired THEN 0 ELSE app[p]]
        /\ gone' = [p \in Peers |-> IF p \in Expired THEN 0 ELSE gone[p]]
    BY <1>6 DEF Refresh
  <2>. QED  BY <2>1, <2>2, RetainNat, TimesAssumption DEF RestInv
<1>7. CASE Tick
  <2>1. /\ peers' = peers /\ penalty' = penalty /\ app' = app
        /\ gone' = [p \in Peers |-> IF gone[p] = 0 THEN 0
                                    ELSE AtMost(gone[p] + 1, Global.retainScore + 2)]
    BY <1>7 DEF Tick
  <2>. QED  BY <2>1, RetainNat DEF RestInv, AtMost
<1>8. CASE UNCHANGED vars
  BY <1>0, <1>8 DEF vars, statVars
<1>. QED  BY <1>1, <1>2, <1>3, <1>4, <1>5, <1>6, <1>7, <1>8 DEF Next

(* The parts of the type invariant.                                        *)
LEMMA TypeParts == ConnInv /\ MsgInv /\ TopicInv /\ RestInv => TypeOK
<1>. SUFFICES ASSUME ConnInv, MsgInv, TopicInv, RestInv PROVE TypeOK
  OBVIOUS
<1>1. topics \in [Peers -> [Topics -> TopicStats]]
  <2>1. topics \in Table
    BY DEF TopicInv, TopicsType
  <2>2. \A p \in Peers, t \in Topics : topics[p][t] \in TopicStats
    BY <2>1, StatsBounded DEF TopicInv, Bounded, Table
  <2>. QED  BY <2>1, <2>2 DEF Table
<1>2. params \in [Topics -> ParamChoices \cup {NoParams}]
  BY DEF TopicInv, TopicsType, Params
<1>3. \A p \in Peers \ peers : ips[p] = {}
  BY DEF ConnInv, ConnType, StatusFollows, NoGhostAddress, Connected, IPs
<1>4. \A p \in Peers \ peers : /\ gone[p] = 0 /\ penalty[p] = 0 /\ app[p] = 0
                               /\ topics[p] = [t \in Topics |-> NewTopicStats]
  BY DEF RestInv, TopicInv, Unused
<1>. QED  BY <1>1, <1>2, <1>3, <1>4 DEF TypeOK, ConnInv, ConnType, MsgInv, MsgType, RestInv

(* The state of the scores has its type, and a peer without statistics has *)
(* the initial ones.                                                       *)
THEOREM TypeCorrect == Spec => []TypeOK
<1>1. Init => RestInv
  BY RetainNat, TimesAssumption DEF Init, RestInv
<1>. QED  BY <1>1, ConnInit, ConnStep, MsgInit, MsgStep, TopicInit, TopicStep, RestStep,
             TypeParts, PTL DEF Spec

-----------------------------------------------------------------------------
(* Sums over finite sets.                                                  *)

(* A set of naturals that is not empty has a least element.                *)
LEMMA LeastNat ==
  ASSUME NEW T \in SUBSET Nat, T # {}
  PROVE  \E x \in T : \A y \in T : x <= y
<1>1. PICK x \in T : \A y \in T : ~(<<y, x>> \in OpToRel(<, Nat))
  BY NatLessThanWellFounded, WFMin
<1>2. \A y \in T : ~(y < x)
  BY <1>1 DEF OpToRel
<1>. QED  BY <1>2

(* Induction up to n, over a set instead of a predicate.                   *)
LEMMA Induction ==
  ASSUME NEW n \in Nat, NEW S, 0 \in S,
         \A k \in 1..n : k - 1 \in S => k \in S
  PROVE  \A k \in 0..n : k \in S
<1>. DEFINE T == {k \in 0..n : k \notin S}
<1>1. CASE T = {}
  BY <1>1
<1>2. CASE T # {}
  <2>1. T \in SUBSET Nat
    OBVIOUS
  <2>. HIDE DEF T
  <2>2. PICK k \in T : \A j \in T : k <= j
    BY <1>2, <2>1, LeastNat
  <2>3. k \in 0..n /\ k \notin S
    BY <2>2 DEF T
  <2>4. k \in 1..n /\ k - 1 \in 0..n
    BY <2>3
  <2>5. k - 1 \notin T
    BY <2>1, <2>2, <2>4
  <2>6. k - 1 \in S
    BY <2>4, <2>5 DEF T
  <2>. QED  BY <2>3, <2>4, <2>6
<1>. QED  BY <1>1, <1>2

(* The element that a sum over s takes first.                              *)
Pick(s) == CHOOSE x \in s : TRUE

(* What F sums, if it is right for smaller sets.                           *)
Summed(S, f, F) ==
  [s \in SUBSET S |-> IF s = {} THEN 0 ELSE f[Pick(s)] + F[s \ {Pick(s)}]]

IsSum(S, f, F) == F = Summed(S, f, F)

(* A set without the element that is taken first.                          *)
LEMMA PickOne ==
  ASSUME NEW S, IsFiniteSet(S), NEW s \in SUBSET S, s # {}
  PROVE  /\ Pick(s) \in s /\ Pick(s) \in S /\ s \ {Pick(s)} \in SUBSET S
         /\ Cardinality(s) \in Nat \ {0}
         /\ Cardinality(s \ {Pick(s)}) = Cardinality(s) - 1
<1>1. Pick(s) \in s
  BY Zenon DEF Pick
<1>2. IsFiniteSet(s)
  BY FS_Subset
<1>3. Cardinality(s) \in Nat
  BY <1>2, FS_CardinalityType
<1>4. Cardinality(s) # 0
  BY <1>2, FS_EmptySet
<1>5. Cardinality(s \ {Pick(s)}) = Cardinality(s) - 1
  BY <1>1, <1>2, FS_RemoveElement
<1>. QED  BY <1>1, <1>3, <1>4, <1>5

(* There is a sum: a function that is right for sets of less than m        *)
(* elements makes one that is right for sets of m.                         *)
LEMMA SumExists ==
  ASSUME NEW S, IsFiniteSet(S), NEW f \in [S -> Int]
  PROVE  \E F \in [SUBSET S -> Int] : IsSum(S, f, F)
<1>. DEFINE n == Cardinality(S)
            Upto(F, m) == \A s \in SUBSET S : Cardinality(s) <= m => F[s] = Summed(S, f, F)[s]
            Good == {m \in 0..n : \E F \in [SUBSET S -> Int] : Upto(F, m)}
<1>0. n \in Nat
  BY FS_CardinalityType
<1>1. ASSUME NEW s \in SUBSET S
      PROVE  Cardinality(s) \in Nat /\ Cardinality(s) <= n
  BY FS_Subset, FS_CardinalityType
<1>2. 0 \in Good
  <2>. DEFINE Z == [s \in SUBSET S |-> 0]
  <2>1. Z \in [SUBSET S -> Int]
    OBVIOUS
  <2>2. ASSUME NEW s \in SUBSET S, Cardinality(s) <= 0 PROVE Z[s] = Summed(S, f, Z)[s]
    <3>1. s # {} => Cardinality(s) \in Nat \ {0}
      BY PickOne
    <3>2. s = {}
      BY <2>2, <3>1
    <3>. QED  BY <3>2 DEF Summed
  <2>. HIDE DEF Z
  <2>3. 0 \in 0..n
    BY <1>0
  <2>. QED  BY <2>1, <2>2, <2>3
<1>3. ASSUME NEW m \in 1..n, m - 1 \in Good PROVE m \in Good
  <2>1. PICK F \in [SUBSET S -> Int] : Upto(F, m - 1)
    BY <1>3
  <2>. DEFINE G == Summed(S, f, F)
  <2>2. G \in [SUBSET S -> Int]
    <3>1. ASSUME NEW s \in SUBSET S, s # {} PROVE f[Pick(s)] + F[s \ {Pick(s)}] \in Int
      <4>1. Pick(s) \in S /\ s \ {Pick(s)} \in SUBSET S
        BY <3>1, PickOne
      <4>2. f[Pick(s)] \in Int /\ F[s \ {Pick(s)}] \in Int
        BY <2>1, <4>1
      <4>. QED  BY <4>2
    <3>. QED  BY <3>1 DEF Summed
  <2>3. ASSUME NEW s \in SUBSET S, Cardinality(s) <= m PROVE G[s] = Summed(S, f, G)[s]
    <3>1. CASE s = {}
      BY <3>1 DEF Summed
    <3>2. CASE s # {}
      <4>. DEFINE u == s \ {Pick(s)}
      <4>1. u \in SUBSET S /\ Cardinality(u) = Cardinality(s) - 1 /\ Cardinality(s) \in Nat
        BY <3>2, PickOne
      <4>2. Cardinality(u) <= m - 1
        BY <1>0, <2>3, <4>1
      <4>3. F[u] = G[u]
        BY <2>1, <4>1, <4>2
      <4>4. G[s] = f[Pick(s)] + F[u]
        BY <3>2 DEF Summed
      <4>. HIDE DEF G
      <4>5. Summed(S, f, G)[s] = f[Pick(s)] + G[u]
        BY <3>2 DEF Summed
      <4>. QED  BY <4>3, <4>4, <4>5
    <3>. QED  BY <3>1, <3>2
  <2>. HIDE DEF G
  <2>4. m \in 0..n
    BY <1>0
  <2>. QED  BY <2>2, <2>3, <2>4
<1>. HIDE DEF Good
<1>4. \A k \in 0..n : k \in Good
  BY <1>0, <1>2, <1>3, Induction
<1>5. n \in Good
  BY <1>0, <1>4
<1>6. PICK F \in [SUBSET S -> Int] : Upto(F, n)
  BY <1>5 DEF Good
<1>7. \A s \in SUBSET S : F[s] = Summed(S, f, F)[s]
  BY <1>1, <1>6
<1>8. F = Summed(S, f, F)
  BY <1>6, <1>7 DEF Summed
<1>. QED  BY <1>6, <1>8 DEF IsSum

(* The sum of smaller terms is smaller.                                    *)
LEMMA SumLower ==
  ASSUME NEW S, IsFiniteSet(S), NEW f \in [S -> Int], NEW g \in [S -> Int],
         \A x \in S : f[x] <= g[x], NEW F, NEW G, IsSum(S, f, F), IsSum(S, g, G)
  PROVE  F[S] \in Int /\ G[S] \in Int /\ F[S] <= G[S]
<1>. DEFINE n == Cardinality(S)
            Lower(s) == F[s] \in Int /\ G[s] \in Int /\ F[s] <= G[s]
            Good == {m \in 0..n : \A s \in SUBSET S : Cardinality(s) = m => Lower(s)}
<1>0. n \in Nat
  BY FS_CardinalityType
<1>1. \A s \in SUBSET S : /\ F[s] = IF s = {} THEN 0 ELSE f[Pick(s)] + F[s \ {Pick(s)}]
                          /\ G[s] = IF s = {} THEN 0 ELSE g[Pick(s)] + G[s \ {Pick(s)}]
  BY DEF IsSum, Summed
<1>2. 0 \in Good
  <2>1. ASSUME NEW s \in SUBSET S, Cardinality(s) = 0 PROVE Lower(s)
    <3>1. s = {}
      BY <2>1, PickOne
    <3>. QED  BY <1>1, <3>1
  <2>2. 0 \in 0..n
    BY <1>0
  <2>. QED  BY <2>1, <2>2
<1>3. ASSUME NEW m \in 1..n, m - 1 \in Good PROVE m \in Good
  <2>1. ASSUME NEW s \in SUBSET S, Cardinality(s) = m PROVE Lower(s)
    <3>1. s # {}
      BY <1>0, <2>1, FS_EmptySet
    <3>. DEFINE u == s \ {Pick(s)}
                x == Pick(s)
    <3>2. u \in SUBSET S /\ x \in S /\ Cardinality(u) = m - 1
      BY <2>1, <3>1, PickOne
    <3>3. Lower(u)
      BY <1>3, <3>2
    <3>4. F[s] = f[x] + F[u] /\ G[s] = g[x] + G[u]
      BY <1>1, <3>1
    <3>5. f[x] \in Int /\ g[x] \in Int /\ f[x] <= g[x]
      BY <3>2
    <3>. HIDE DEF u, x
    <3>. QED  BY <3>3, <3>4, <3>5
  <2>2. m \in 0..n
    BY <1>0
  <2>. QED  BY <2>1, <2>2
<1>. HIDE DEF Good
<1>4. \A k \in 0..n : k \in Good
  BY <1>0, <1>2, <1>3, Induction
<1>5. n \in Good
  BY <1>0, <1>4
<1>. QED  BY <1>5 DEF Good

(* The sum of zeros is zero.                                               *)
LEMMA SumZero ==
  ASSUME NEW S, IsFiniteSet(S), NEW f \in [S -> Int], \A x \in S : f[x] = 0,
         NEW F, IsSum(S, f, F)
  PROVE  F[S] = 0
<1>. DEFINE Z == [s \in SUBSET S |-> 0]
<1>1. IsSum(S, f, Z)
  <2>1. ASSUME NEW s \in SUBSET S PROVE Z[s] = Summed(S, f, Z)[s]
    <3>1. CASE s = {}
      BY <3>1 DEF Summed
    <3>2. CASE s # {}
      <4>1. Pick(s) \in S /\ s \ {Pick(s)} \in SUBSET S
        BY <3>2, PickOne
      <4>. QED  BY <3>2, <4>1 DEF Summed
    <3>. QED  BY <3>1, <3>2
  <2>. QED  BY <2>1 DEF Summed, IsSum
<1>2. Z[S] = 0
  OBVIOUS
<1>. HIDE DEF Z
<1>3. \A x \in S : f[x] <= f[x]
  OBVIOUS
<1>4. F[S] \in Int /\ F[S] <= Z[S]
  BY <1>1, <1>3, SumLower
<1>5. Z[S] <= F[S]
  BY <1>1, <1>3, SumLower
<1>. QED  BY <1>2, <1>4, <1>5

(* What a topic adds to the sum.                                           *)
Term(stats, rs, t) == IF rs[t] # NoParams THEN TopicScore(stats[t], rs[t]) ELSE 0

(* The topics' sum is a sum of these terms.                                *)
LEMMA TopicsSumIs ==
  ASSUME NEW stats, NEW rs, \A t \in Topics : Term(stats, rs, t) \in Int
  PROVE  \E F : /\ IsSum(Topics, [t \in Topics |-> Term(stats, rs, t)], F)
                /\ TopicsSum(stats, rs) = F[Topics]
<1>. DEFINE f == [t \in Topics |-> Term(stats, rs, t)]
            Iter(F) == F = [s \in SUBSET Topics |->
                              IF s = {} THEN 0
                              ELSE Term(stats, rs, CHOOSE x \in s : TRUE)
                                   + F[s \ {CHOOSE x \in s : TRUE}]]
<1>1. \E F \in [SUBSET Topics -> Int] : IsSum(Topics, f, F)
  <2>1. f \in [Topics -> Int]
    OBVIOUS
  <2>. HIDE DEF f
  <2>. QED  BY <2>1, SumExists, FiniteAssumption
<1>2. ASSUME NEW F PROVE Iter(F) <=> IsSum(Topics, f, F)
  <2>1. ASSUME NEW s \in SUBSET Topics, s # {}
        PROVE  f[Pick(s)] = Term(stats, rs, Pick(s))
    <3>1. Pick(s) \in Topics
      BY <2>1, PickOne, FiniteAssumption
    <3>. HIDE DEF Term
    <3>. QED  BY <3>1
  <2>. HIDE DEF f
  <2>. QED  BY <2>1 DEF IsSum, Summed, Pick
<1>3. TopicsSum(stats, rs) = (CHOOSE F : Iter(F))[Topics]
  BY DEF TopicsSum, MapThenSumSet, MapThenFoldSet, Term
<1>. HIDE DEF Iter
<1>4. Iter(CHOOSE F : Iter(F))
  <2>1. \E F : Iter(F)
    BY <1>1, <1>2
  <2>. QED  BY <2>1, Zenon
<1>. QED  BY <1>2, <1>3, <1>4

(* Lower terms make a lower sum.                                           *)
LEMMA TopicsSumLower ==
  ASSUME NEW stats, NEW stats2, NEW rs,
         \A t \in Topics : /\ Term(stats, rs, t) \in Int /\ Term(stats2, rs, t) \in Int
                           /\ Term(stats2, rs, t) <= Term(stats, rs, t)
  PROVE  /\ TopicsSum(stats, rs) \in Int /\ TopicsSum(stats2, rs) \in Int
         /\ TopicsSum(stats2, rs) <= TopicsSum(stats, rs)
<1>. DEFINE g == [t \in Topics |-> Term(stats, rs, t)]
            f == [t \in Topics |-> Term(stats2, rs, t)]
<1>1. f \in [Topics -> Int] /\ g \in [Topics -> Int] /\ \A t \in Topics : f[t] <= g[t]
  OBVIOUS
<1>2. PICK G : IsSum(Topics, g, G) /\ TopicsSum(stats, rs) = G[Topics]
  BY TopicsSumIs
<1>3. PICK F : IsSum(Topics, f, F) /\ TopicsSum(stats2, rs) = F[Topics]
  BY TopicsSumIs
<1>. HIDE DEF f, g
<1>. QED  BY <1>1, <1>2, <1>3, SumLower, FiniteAssumption

(* Topics that add nothing.                                                *)
LEMMA TopicsSumZero ==
  ASSUME NEW stats, NEW rs, \A t \in Topics : Term(stats, rs, t) = 0
  PROVE  TopicsSum(stats, rs) = 0
<1>. DEFINE f == [t \in Topics |-> Term(stats, rs, t)]
<1>1. f \in [Topics -> Int] /\ \A t \in Topics : f[t] = 0
  OBVIOUS
<1>2. PICK F : IsSum(Topics, f, F) /\ TopicsSum(stats, rs) = F[Topics]
  <2>1. \A t \in Topics : Term(stats, rs, t) \in Int
    OBVIOUS
  <2>. QED  BY <2>1, TopicsSumIs
<1>. HIDE DEF f
<1>. QED  BY <1>1, <1>2, SumZero, FiniteAssumption

(* A peer without addresses pays nothing for its neighbours.               *)
LEMMA NoAddressNoScore ==
  ASSUME NEW byIp
  PROVE  IpScore({}, byIp) = 0
<1>. DEFINE Fee(i) == LET n == Cardinality(byIp[i]) IN
                      IF i \notin Global.ipWhitelist /\ n > Global.ipThreshold
                      THEN Square(n - Global.ipThreshold) * Global.ipWeight ELSE 0
            Iter(F) == F = [s \in SUBSET {} |->
                              IF s = {} THEN 0
                              ELSE Fee(CHOOSE x \in s : TRUE)
                                   + F[s \ {CHOOSE x \in s : TRUE}]]
<1>1. IpScore({}, byIp) = (CHOOSE F : Iter(F))[{}]
  BY DEF IpScore, MapThenSumSet, MapThenFoldSet
<1>. HIDE DEF Fee
<1>2. Iter([s \in SUBSET {} |-> 0])
  <2>1. \A s \in SUBSET {} : s = {}
    OBVIOUS
  <2>. QED  BY <2>1
<1>3. ASSUME NEW F, Iter(F) PROVE F[{}] = 0
  BY <1>3
<1>. HIDE DEF Iter
<1>4. Iter(CHOOSE F : Iter(F))
  BY <1>2, Zenon
<1>. QED  BY <1>1, <1>3, <1>4

-----------------------------------------------------------------------------
(* The score of a topic.                                                   *)

(* Products of ordered factors.                                            *)
LEMMA Products ==
  /\ \A w \in Nat, a, b \in Int : a <= b => w * a <= w * b /\ a * w <= b * w
  /\ \A w, a, b \in Int : w <= 0 /\ a <= b => b * w <= a * w
  /\ \A w, a, b \in Int : (a + b) * w = a * w + b * w
  /\ \A w, v \in Int, n \in Nat : w <= v => n * w <= n * v
  /\ \A a, b \in Nat : a <= b => Square(a) <= Square(b)
<1>1. ASSUME NEW w \in Nat, NEW d \in Nat PROVE w * d \in Nat
  OBVIOUS
<1>2. ASSUME NEW w \in Int, NEW a \in Int, NEW b \in Int
      PROVE  /\ (a + b) * w = a * w + b * w /\ w * (b - a) = w * b - w * a
             /\ w * a \in Int /\ a * w = w * a /\ (-w) * (b - a) = w * a - w * b
  OBVIOUS
<1>3. ASSUME NEW w \in Nat, NEW a \in Int, NEW b \in Int, a <= b
      PROVE  w * a <= w * b /\ a * w <= b * w
  <2>1. b - a \in Nat
    BY <1>3
  <2>2. w * (b - a) \in Nat
    BY <1>1, <2>1
  <2>3. w * (b - a) = w * b - w * a /\ w * a \in Int /\ w * b \in Int
        /\ a * w = w * a /\ b * w = w * b
    BY <1>2
  <2>. QED  BY <2>2, <2>3
<1>4. ASSUME NEW w \in Int, NEW a \in Int, NEW b \in Int, w <= 0, a <= b
      PROVE  b * w <= a * w
  <2>1. b - a \in Nat /\ -w \in Nat
    BY <1>4
  <2>2. (-w) * (b - a) \in Nat
    BY <1>1, <2>1
  <2>3. (-w) * (b - a) = w * a - w * b /\ w * a \in Int /\ w * b \in Int
        /\ a * w = w * a /\ b * w = w * b
    BY <1>2
  <2>. QED  BY <2>2, <2>3
<1>5. ASSUME NEW w \in Int, NEW v \in Int, NEW n \in Nat, w <= v PROVE n * w <= n * v
  BY <1>3, <1>5
<1>6. ASSUME NEW a \in Nat, NEW b \in Nat, a <= b PROVE Square(a) <= Square(b)
  <2>1. a * a <= a * b /\ a * b <= b * b
    BY <1>3, <1>6
  <2>2. a * a \in Int /\ a * b \in Int /\ b * b \in Int
    OBVIOUS
  <2>. QED  BY <2>1, <2>2 DEF Square
<1>. QED  BY <1>2, <1>3, <1>4, <1>5, <1>6

(* The weights are integers.                                               *)
LEMMA Weights ==
  ASSUME NEW r \in Params
  PROVE  /\ r.weight \in Int /\ r.timeWeight \in Int /\ r.timeCap \in Int
         /\ r.firstWeight \in Int /\ r.meshWeight \in Int
         /\ r.failureWeight \in Int /\ r.invalidWeight \in Int
BY DEF Params, IsTopicParams

(* P1 and P2; P3 is the deficit.                                           *)
TimeInMesh(s, r) == IF s.inMesh THEN AtMost(s.time, r.timeCap) ELSE 0
Deliveries(s, r) == AtMost(s.first, r.firstCap)

(* The rewards and the penalties of a topic.                               *)
Rewards(s, r) ==
  TimeInMesh(s, r) * r.timeWeight + Deliveries(s, r) * r.firstWeight

Charges(s, r) ==
  Deficit(s, r) * r.meshWeight + s.failure * r.failureWeight

(* The parts of a topic's score are integers.                              *)
LEMMA ScoreParts ==
  ASSUME NEW s \in Stats, NEW r \in Params
  PROVE  /\ TimeInMesh(s, r) \in Int /\ Deliveries(s, r) \in Nat
         /\ TimeInMesh(s, r) * r.timeWeight \in Int
         /\ Deliveries(s, r) * r.firstWeight \in Int
         /\ Rewards(s, r) \in Int /\ Charges(s, r) \in Int
         /\ Square(s.invalid) * r.invalidWeight \in Int
         /\ TopicScore(s, r) \in Int
         /\ TopicScore(s, r) = r.weight * (Rewards(s, r) + Charges(s, r)
                                           + Square(s.invalid) * r.invalidWeight)
<1>1. TimeInMesh(s, r) \in Int /\ Deliveries(s, r) \in Nat
  <2>1. s.time \in Int /\ s.first \in Nat /\ r.timeCap \in Int /\ r.firstCap \in Nat
    BY StatsFields, Weights, ParamsNat, TimesAssumption
  <2>. QED  BY <2>1 DEF TimeInMesh, Deliveries, AtMost
<1>2. Deficit(s, r) \in Nat /\ s.failure \in Nat /\ Square(s.invalid) \in Nat
  <2>1. s.invalid \in Int
    BY StatsFields
  <2>. QED  BY <2>1, DeficitNat, StatsFields, Arithmetic
<1>3. \A a, b \in Int : a * b \in Int /\ a + b \in Int
  OBVIOUS
<1>4. /\ TimeInMesh(s, r) * r.timeWeight \in Int
      /\ Deliveries(s, r) * r.firstWeight \in Int
      /\ Deficit(s, r) * r.meshWeight \in Int
      /\ s.failure * r.failureWeight \in Int
      /\ Square(s.invalid) * r.invalidWeight \in Int
  <2>1. \A a \in Nat : a \in Int
    OBVIOUS
  <2>. QED  BY <1>1, <1>2, <1>3, <2>1, Weights
<1>5. Rewards(s, r) \in Int /\ Charges(s, r) \in Int
  BY <1>4 DEF Rewards, Charges
<1>6. TopicScore(s, r) = r.weight * (TimeInMesh(s, r) * r.timeWeight
                                     + Deliveries(s, r) * r.firstWeight
                                     + Deficit(s, r) * r.meshWeight
                                     + s.failure * r.failureWeight
                                     + Square(s.invalid) * r.invalidWeight)
  BY Zenon DEF TopicScore, TimeInMesh, Deliveries, Deficit
<1>7. \A a, b, c, d, e \in Int : a + b + c + d + e = (a + b) + (c + d) + e
  OBVIOUS
<1>8. TopicScore(s, r) = r.weight * (Rewards(s, r) + Charges(s, r)
                                     + Square(s.invalid) * r.invalidWeight)
  BY <1>4, <1>6, <1>7 DEF Rewards, Charges
<1>9. TopicScore(s, r) \in Int
  <2>1. Rewards(s, r) + Charges(s, r) + Square(s.invalid) * r.invalidWeight \in Int
    BY <1>4, <1>5, <1>3
  <2>. QED  BY <1>3, <1>8, <2>1, Weights
<1>. QED  BY <1>1, <1>4, <1>5, <1>8, <1>9

(* Statistics with lower parts have a lower score.                         *)
LEMMA ScoreLower ==
  ASSUME NEW s \in Stats, NEW e \in Stats, NEW r \in Params, ValidTopic(r),
         Rewards(e, r) <= Rewards(s, r), Charges(e, r) <= Charges(s, r),
         s.invalid <= e.invalid
  PROVE  TopicScore(e, r) <= TopicScore(s, r)
<1>. DEFINE i == Square(s.invalid) * r.invalidWeight
            j == Square(e.invalid) * r.invalidWeight
<1>1. j <= i
  <2>1. Square(s.invalid) <= Square(e.invalid)
    BY StatsFields, Products
  <2>2. Square(s.invalid) \in Nat /\ Square(e.invalid) \in Nat
    <3>1. s.invalid \in Int /\ e.invalid \in Int
      BY StatsFields
    <3>. QED  BY <3>1, Arithmetic
  <2>3. r.invalidWeight \in Int /\ r.invalidWeight <= 0
    BY Weights DEF ValidTopic
  <2>. QED  BY <2>1, <2>2, <2>3, Products
<1>2. /\ Rewards(s, r) \in Int /\ Charges(s, r) \in Int /\ i \in Int
      /\ TopicScore(s, r) = r.weight * (Rewards(s, r) + Charges(s, r) + i)
  BY ScoreParts
<1>3. /\ Rewards(e, r) \in Int /\ Charges(e, r) \in Int /\ j \in Int
      /\ TopicScore(e, r) = r.weight * (Rewards(e, r) + Charges(e, r) + j)
  BY ScoreParts
<1>. HIDE DEF i, j
<1>4. Rewards(e, r) + Charges(e, r) + j <= Rewards(s, r) + Charges(s, r) + i
  BY <1>1, <1>2, <1>3
<1>5. /\ Rewards(e, r) + Charges(e, r) + j \in Int
      /\ Rewards(s, r) + Charges(s, r) + i \in Int
  BY <1>2, <1>3
<1>6. r.weight \in Nat
  BY Weights DEF ValidTopic
<1>. QED  BY <1>2, <1>3, <1>4, <1>5, <1>6, Products

(* Initial statistics score nothing.                                       *)
LEMMA NewScore ==
  ASSUME NEW r \in Params
  PROVE  TopicScore(NewTopicStats, r) = 0
<1>1. /\ NewTopicStats \in Stats /\ ~NewTopicStats.inMesh /\ ~NewTopicStats.active
      /\ NewTopicStats.first = 0 /\ NewTopicStats.failure = 0 /\ NewTopicStats.invalid = 0
  BY NewStats DEF NewTopicStats
<1>2. /\ TimeInMesh(NewTopicStats, r) = 0 /\ Deliveries(NewTopicStats, r) = 0
      /\ Deficit(NewTopicStats, r) = 0
  BY <1>1, ParamsNat DEF TimeInMesh, Deliveries, Deficit, AtMost
<1>3. Square(NewTopicStats.invalid) = 0
  BY <1>1 DEF Square
<1>4. \A a \in Int : 0 * a = 0 /\ a * 0 = 0
  OBVIOUS
<1>5. Rewards(NewTopicStats, r) = 0 /\ Charges(NewTopicStats, r) = 0
      /\ Square(NewTopicStats.invalid) * r.invalidWeight = 0
  <2>1. 0 + 0 = 0
    OBVIOUS
  <2>. QED  BY <1>1, <1>2, <1>3, <1>4, <2>1, Weights DEF Rewards, Charges
<1>6. TopicScore(NewTopicStats, r) = r.weight * (0 + 0 + 0)
  BY <1>1, <1>5, ScoreParts
<1>7. 0 + 0 + 0 = 0
  OBVIOUS
<1>. QED  BY <1>4, <1>6, <1>7, Weights

(* The time in the mesh is worth something or nothing, never less.         *)
LEMMA TimeWorth ==
  ASSUME NEW s \in Stats, NEW r \in Params, ValidTopic(r)
  PROVE  /\ 0 <= TimeInMesh(s, r) * r.timeWeight
         /\ ~s.inMesh \/ s.time = 0 => TimeInMesh(s, r) * r.timeWeight = 0
<1>1. r.timeWeight \in Nat /\ r.timeCap \in Int /\ s.time \in Nat
  BY Weights, StatsFields, TimesAssumption DEF ValidTopic
<1>2. TimeInMesh(s, r) \in Int
  BY ScoreParts
<1>3. CASE r.timeWeight = 0
  <2>1. \A n \in Int : n * 0 = 0
    OBVIOUS
  <2>. QED  BY <1>2, <1>3, <2>1
<1>4. CASE r.timeWeight # 0
  <2>1. r.timeCap > 0
    BY <1>4 DEF ValidTopic
  <2>2. /\ TimeInMesh(s, r) \in Nat
        /\ ~s.inMesh \/ s.time = 0 => TimeInMesh(s, r) = 0
    BY <1>1, <2>1 DEF TimeInMesh, AtMost
  <2>3. \A n, w \in Nat : n * w >= 0 /\ 0 * w = 0
    OBVIOUS
  <2>. QED  BY <1>1, <2>2, <2>3
<1>. QED  BY <1>3, <1>4

(* Out of a mesh with the deficit charged.                                 *)
LEMMA LeftLower ==
  ASSUME NEW s \in Stats, NEW e \in Stats, NEW r \in Params, ValidTopic(r),
         r.failureWeight <= r.meshWeight, ~e.inMesh, ~e.active, e.first <= s.first,
         e.failure = s.failure + Deficit(s, r), e.invalid = s.invalid
  PROVE  TopicScore(e, r) <= TopicScore(s, r)
<1>1. Rewards(e, r) <= Rewards(s, r)
  <2>1. Deliveries(e, r) <= Deliveries(s, r)
    BY StatsFields, ParamsNat DEF Deliveries, AtMost
  <2>2. Deliveries(e, r) \in Nat /\ Deliveries(s, r) \in Nat
    BY ScoreParts
  <2>3. r.firstWeight \in Nat
    BY Weights DEF ValidTopic
  <2>4. Deliveries(e, r) * r.firstWeight <= Deliveries(s, r) * r.firstWeight
    BY <2>1, <2>2, <2>3, Products
  <2>5. /\ TimeInMesh(e, r) * r.timeWeight = 0
        /\ 0 <= TimeInMesh(s, r) * r.timeWeight
    BY TimeWorth
  <2>6. /\ TimeInMesh(s, r) * r.timeWeight \in Int
        /\ Deliveries(s, r) * r.firstWeight \in Int
    BY ScoreParts
  <2>7. Deliveries(e, r) * r.firstWeight \in Int
    BY ScoreParts
  <2>. QED  BY <2>4, <2>5, <2>6, <2>7 DEF Rewards
<1>2. Charges(e, r) <= Charges(s, r)
  <2>. DEFINE d == Deficit(s, r)
              w == r.failureWeight
              v == r.meshWeight
  <2>1. d \in Nat /\ s.failure \in Nat /\ w \in Int /\ v \in Int /\ w <= v
    BY DeficitNat, StatsFields, Weights
  <2>2. Deficit(e, r) = 0
    BY DEF Deficit
  <2>3. Charges(e, r) = 0 * v + (s.failure + d) * w
    BY <2>2 DEF Charges
  <2>4. Charges(s, r) = d * v + s.failure * w
    BY DEF Charges
  <2>. HIDE DEF d, w, v
  <2>5. (s.failure + d) * w = s.failure * w + d * w
    BY <2>1, Products
  <2>6. d * w <= d * v
    BY <2>1, Products
  <2>7. d * w \in Int /\ d * v \in Int /\ s.failure * w \in Int /\ 0 * v = 0
    BY <2>1
  <2>. QED  BY <2>3, <2>4, <2>5, <2>6, <2>7
<1>3. s.invalid <= e.invalid
  BY StatsFields
<1>. QED  BY <1>1, <1>2, <1>3, ScoreLower

(* A retained peer's statistics.                                           *)
LEMMA RetiredLower ==
  ASSUME NEW s \in Stats, s.active => s.inMesh, NEW r \in Params, r # NoParams,
         ValidTopic(r), r.failureWeight <= r.meshWeight
  PROVE  Retired(s, r) \in Stats /\ TopicScore(Retired(s, r), r) <= TopicScore(s, r)
<1>. DEFINE n == s.failure + Deficit(s, r)
            e == [s EXCEPT !.first = 0, !.inMesh = FALSE, !.graft = 0, !.time = 0,
                           !.active = FALSE, !.failure = n]
<1>1. s.failure + (IF r # NoParams /\ s.inMesh THEN Deficit(s, r) ELSE 0) = n
  <2>1. ~s.inMesh => Deficit(s, r) = 0
    BY DEF Deficit
  <2>2. CASE s.inMesh
    BY <2>2
  <2>3. CASE ~s.inMesh
    BY <2>1, <2>3
  <2>. QED  BY <2>2, <2>3
<1>2. n \in Nat
  BY StatsFields, DeficitNat
<1>3. Retired(s, r) = e
  BY <1>1, Zenon DEF Retired
<1>4. 0 \in 0..MaxAge /\ 0 \in Nat
  BY TimesAssumption
<1>. HIDE DEF n
<1>5. /\ e \in Stats /\ ~e.inMesh /\ ~e.active /\ e.first = 0 /\ e.failure = n
      /\ e.invalid = s.invalid
  BY <1>2, <1>4, Zenon DEF Stats
<1>. HIDE DEF e
<1>6. e.first <= s.first
  BY <1>5, StatsFields
<1>7. e.failure = s.failure + Deficit(s, r)
  BY <1>5 DEF n
<1>8. TopicScore(e, r) <= TopicScore(s, r)
  BY <1>5, <1>6, <1>7, LeftLower
<1>. QED  BY <1>3, <1>5, <1>8

(* A pruned peer's statistics.                                             *)
LEMMA PruneLower ==
  ASSUME NEW s \in Stats, NEW r \in Params, ValidTopic(r),
         r.failureWeight <= r.meshWeight
  PROVE  LET e == [s EXCEPT !.failure = @ + Deficit(s, r), !.inMesh = FALSE,
                            !.graft = 0, !.time = 0, !.active = FALSE]
         IN e \in Stats /\ TopicScore(e, r) <= TopicScore(s, r)
<1>. DEFINE n == s.failure + Deficit(s, r)
            e == [s EXCEPT !.failure = n, !.inMesh = FALSE, !.graft = 0, !.time = 0,
                           !.active = FALSE]
<1>2. n \in Nat
  BY StatsFields, DeficitNat
<1>3. [s EXCEPT !.failure = @ + Deficit(s, r), !.inMesh = FALSE,
                !.graft = 0, !.time = 0, !.active = FALSE] = e
  BY Zenon
<1>4. 0 \in 0..MaxAge
  BY TimesAssumption
<1>. HIDE DEF n
<1>5. /\ e \in Stats /\ ~e.inMesh /\ ~e.active /\ e.first = s.first /\ e.failure = n
      /\ e.invalid = s.invalid
  BY <1>2, <1>4, Zenon DEF Stats
<1>. HIDE DEF e
<1>6. e.first <= s.first
  BY <1>5, StatsFields
<1>7. e.failure = s.failure + Deficit(s, r)
  BY <1>5 DEF n
<1>8. TopicScore(e, r) <= TopicScore(s, r)
  BY <1>5, <1>6, <1>7, LeftLower
<1>. QED  BY <1>3, <1>5, <1>8, Zenon

(* A grafted peer's statistics: it starts without time in the mesh.        *)
LEMMA GraftLower ==
  ASSUME NEW s \in Stats, ~s.inMesh, s.active => s.inMesh, NEW r \in Params, ValidTopic(r)
  PROVE  LET e == [s EXCEPT !.inMesh = TRUE, !.graft = 0, !.time = 0, !.active = FALSE]
         IN e \in Stats /\ TopicScore(e, r) <= TopicScore(s, r)
<1>. DEFINE e == [s EXCEPT !.inMesh = TRUE, !.graft = 0, !.time = 0, !.active = FALSE]
<1>1. 0 \in 0..MaxAge
  BY TimesAssumption
<1>2. /\ e \in Stats /\ ~e.active /\ e.time = 0 /\ e.first = s.first
      /\ e.failure = s.failure /\ e.invalid = s.invalid
  BY <1>1, Zenon DEF Stats
<1>. HIDE DEF e
<1>3. Deficit(e, r) = 0 /\ Deficit(s, r) = 0
  BY <1>2 DEF Deficit
<1>4. Charges(e, r) = Charges(s, r)
  BY <1>2, <1>3 DEF Charges
<1>5. TimeInMesh(e, r) * r.timeWeight = 0 /\ TimeInMesh(s, r) * r.timeWeight = 0
  <2>1. TimeInMesh(e, r) * r.timeWeight = 0
    BY <1>2, TimeWorth
  <2>2. TimeInMesh(s, r) * r.timeWeight = 0
    BY TimeWorth
  <2>. QED  BY <2>1, <2>2
<1>6. Rewards(e, r) = Rewards(s, r)
  <2>1. Deliveries(e, r) = Deliveries(s, r)
    BY <1>2 DEF Deliveries
  <2>. QED  BY <1>5, <2>1 DEF Rewards
<1>7. Rewards(s, r) \in Int /\ Charges(s, r) \in Int /\ s.invalid \in Nat
  BY ScoreParts, StatsFields
<1>8. Rewards(e, r) <= Rewards(s, r) /\ Charges(e, r) <= Charges(s, r) /\ s.invalid <= e.invalid
  BY <1>2, <1>4, <1>6, <1>7
<1>9. TopicScore(e, r) <= TopicScore(s, r)
  BY <1>2, <1>8, ScoreLower
<1>. QED  BY <1>2, <1>9, Zenon DEF e

(* Statistics that agree in what a score is made of.                       *)
LEMMA SameLower ==
  ASSUME NEW s \in Stats, NEW e \in Stats, NEW r \in Params, ValidTopic(r),
         e.inMesh = s.inMesh, e.active = s.active, e.time = s.time, e.first = s.first,
         e.mesh = s.mesh, e.failure = s.failure, s.invalid <= e.invalid
  PROVE  TopicScore(e, r) <= TopicScore(s, r)
<1>1. TimeInMesh(e, r) = TimeInMesh(s, r) /\ Deliveries(e, r) = Deliveries(s, r)
  BY DEF TimeInMesh, Deliveries
<1>2. Deficit(e, r) = Deficit(s, r)
  BY DEF Deficit
<1>3. Rewards(e, r) = Rewards(s, r) /\ Charges(e, r) = Charges(s, r)
  BY <1>1, <1>2 DEF Rewards, Charges
<1>4. Rewards(s, r) \in Int /\ Charges(s, r) \in Int
  BY ScoreParts
<1>5. Rewards(e, r) <= Rewards(s, r) /\ Charges(e, r) <= Charges(s, r)
  BY <1>3, <1>4
<1>. QED  BY <1>5, ScoreLower

(* An invalid message is counted.                                          *)
LEMMA InvalidLower ==
  ASSUME NEW s \in Stats, NEW r \in Params, ValidTopic(r)
  PROVE  TopicScore(MarkInvalid(s), r) <= TopicScore(s, r)
<1>. DEFINE n == s.invalid + 1
            e == [s EXCEPT !.invalid = n]
<1>1. n \in Nat /\ s.invalid <= n
  BY StatsFields
<1>2. MarkInvalid(s) = e
  BY Zenon DEF MarkInvalid
<1>. HIDE DEF n
<1>3. /\ e \in Stats /\ e.inMesh = s.inMesh /\ e.active = s.active /\ e.time = s.time
      /\ e.first = s.first /\ e.mesh = s.mesh /\ e.failure = s.failure /\ e.invalid = n
  BY <1>1, Zenon DEF Stats
<1>. HIDE DEF e
<1>. QED  BY <1>1, <1>2, <1>3, SameLower

(* Time passes.                                                            *)
LEMMA TickLower ==
  ASSUME NEW s \in Stats, NEW r \in Params, ValidTopic(r)
  PROVE  LET e == [s EXCEPT !.graft = IF s.inMesh THEN AtMost(@ + 1, MaxAge) ELSE @]
         IN TopicScore(e, r) <= TopicScore(s, r)
<1>. DEFINE n == IF s.inMesh THEN AtMost(s.graft + 1, MaxAge) ELSE s.graft
            e == [s EXCEPT !.graft = n]
<1>1. n \in 0..MaxAge
  BY StatsFields, TimesAssumption DEF AtMost
<1>2. [s EXCEPT !.graft = IF s.inMesh THEN AtMost(@ + 1, MaxAge) ELSE @] = e
  BY Zenon
<1>. HIDE DEF n
<1>3. /\ e \in Stats /\ e.inMesh = s.inMesh /\ e.active = s.active /\ e.time = s.time
      /\ e.first = s.first /\ e.mesh = s.mesh /\ e.failure = s.failure
      /\ e.invalid = s.invalid
  BY <1>1, Zenon DEF Stats
<1>. HIDE DEF e
<1>4. s.invalid <= e.invalid
  BY <1>3, StatsFields
<1>5. TopicScore(e, r) <= TopicScore(s, r)
  BY <1>3, <1>4, SameLower
<1>. QED  BY <1>2, <1>5, Zenon

-----------------------------------------------------------------------------
(* Whole scores.                                                           *)

(* The topics' sum under the cap, and P7 for n penalties.                  *)
Capped(sum) ==
  IF Global.topicScoreCap > 0 THEN AtMost(sum, Global.topicScoreCap) ELSE sum

PenaltyScore(n) ==
  IF n > Global.penaltyThreshold
  THEN Square(n - Global.penaltyThreshold) * Global.penaltyWeight ELSE 0

(* The step raises no score of q for a topic.                              *)
Lower(f, g, q) ==
  \A t \in Topics : Scored(t) =>
    TopicScore(g[q][t], params[t]) <= TopicScore(f[q][t], params[t])

NotRaised(q) == ~(OwnScore(q)' > OwnScore(q))

(* A score and its parts.                                                  *)
LEMMA OwnParts ==
  ASSUME NEW q
  PROVE  /\ OwnScore(q) = IF q \notin peers THEN 0
                          ELSE Capped(TopicsSum(topics[q], params))
                               + app[q] * Global.appWeight + PenaltyScore(penalty[q])
         /\ OwnScore(q)' = IF q \notin peers' THEN 0
                           ELSE Capped(TopicsSum(topics'[q], params'))
                                + app'[q] * Global.appWeight + PenaltyScore(penalty'[q])
BY DEF OwnScore, TopicsScore, Capped, PenaltyScore

(* A cap keeps the order.                                                  *)
LEMMA CappedLower ==
  ASSUME NEW m \in Int, NEW n \in Int, m <= n
  PROVE  Capped(m) \in Int /\ Capped(n) \in Int /\ Capped(m) <= Capped(n) /\ Capped(0) = 0
<1>1. Global.topicScoreCap \in Int
  BY ParamsAssumption DEF IsGlobalParams
<1>. QED  BY <1>1 DEF Capped, AtMost

(* More penalties, a lower score.                                          *)
LEMMA PenaltyLower ==
  ASSUME NEW m \in Nat, NEW n \in Nat, m <= n
  PROVE  /\ PenaltyScore(m) \in Int /\ PenaltyScore(n) \in Int
         /\ PenaltyScore(n) <= PenaltyScore(m) /\ PenaltyScore(0) = 0
<1>. DEFINE c == Global.penaltyThreshold
            w == Global.penaltyWeight
<1>1. c \in Int /\ c >= 0 /\ w \in Int /\ w <= 0
  BY ParamsAssumption DEF IsGlobalParams, ValidGlobal
<1>2. \A k \in Nat : PenaltyScore(k) = IF k > c THEN Square(k - c) * w ELSE 0
  BY DEF PenaltyScore
<1>. HIDE DEF c, w
<1>3. ASSUME NEW k \in Nat PROVE Square(k - c) \in Nat /\ Square(k - c) * w \in Int
  <2>1. k - c \in Int
    BY <1>1
  <2>2. Square(k - c) \in Nat
    BY <2>1, Arithmetic
  <2>. HIDE DEF Square
  <2>. QED  BY <1>1, <2>2
<1>4. \A k \in Nat : PenaltyScore(k) \in Int
  BY <1>2, <1>3
<1>5. PenaltyScore(0) = 0
  BY <1>1, <1>2
<1>6. PenaltyScore(n) <= PenaltyScore(m)
  <2>1. CASE m > c
    <3>1. m - c \in Nat /\ n - c \in Nat /\ m - c <= n - c /\ n > c
      BY <1>1, <2>1
    <3>2. Square(m - c) <= Square(n - c)
      BY <3>1, Products
    <3>3. Square(n - c) * w <= Square(m - c) * w
      <4>1. Square(m - c) \in Int /\ Square(n - c) \in Int
        BY <1>3
      <4>. HIDE DEF Square
      <4>. QED  BY <1>1, <3>2, <4>1, Products
    <3>. QED  BY <1>2, <2>1, <3>1, <3>3
  <2>2. CASE ~(m > c)
    <3>1. PenaltyScore(m) = 0
      BY <1>2, <2>2
    <3>2. CASE n > c
      <4>1. Square(n - c) \in Nat
        BY <1>3
      <4>2. Square(n - c) * w <= 0 * w
        BY <1>1, <4>1, Products
      <4>3. 0 * w = 0
        BY <1>1
      <4>. QED  BY <1>2, <3>1, <3>2, <4>2, <4>3
    <3>3. CASE ~(n > c)
      BY <1>2, <3>1, <3>3
    <3>. QED  BY <3>2, <3>3
  <2>. QED  BY <2>1, <2>2
<1>. QED  BY <1>4, <1>5, <1>6

(* The parameters that Sticky is about.                                    *)
LEMMA StickyTopic ==
  ASSUME TopicInv, Sticky, NEW t \in Topics, Scored(t)
  PROVE  /\ params[t] \in Params /\ params[t] # NoParams /\ ValidTopic(params[t])
         /\ params[t].failureWeight <= params[t].meshWeight
BY ScoredParams DEF Sticky, TopicInv, Scored

(* Terms are integers.                                                     *)
LEMMA TermInt ==
  ASSUME NEW stats \in [Topics -> Stats], NEW rs \in [Topics -> Params \cup {NoParams}],
         NEW t \in Topics
  PROVE  Term(stats, rs, t) \in Int
<1>1. stats[t] \in Stats /\ (rs[t] # NoParams => rs[t] \in Params)
  OBVIOUS
<1>. QED  BY <1>1, ScoreParts DEF Term

(* Scores are integers.                                                    *)
LEMMA OwnInt ==
  ASSUME TopicInv, RestInv, NEW q \in Peers
  PROVE  OwnScore(q) \in Int
<1>1. topics[q] \in [Topics -> Stats] /\ params \in [Topics -> Params \cup {NoParams}]
  BY DEF TopicInv, TopicsType, Table
<1>2. \A t \in Topics : Term(topics[q], params, t) \in Int
  BY <1>1, TermInt
<1>3. TopicsSum(topics[q], params) \in Int
  <2>1. \A t \in Topics : Term(topics[q], params, t) <= Term(topics[q], params, t)
    BY <1>2
  <2>. QED  BY <1>2, <2>1, TopicsSumLower
<1>4. Capped(TopicsSum(topics[q], params)) \in Int
  BY <1>3, CappedLower
<1>5. app[q] * Global.appWeight \in Int
  <2>1. app[q] \in Int /\ Global.appWeight \in Int
    BY ParamsAssumption DEF RestInv, IsGlobalParams
  <2>. QED  BY <2>1
<1>6. PenaltyScore(penalty[q]) \in Int
  <2>1. penalty[q] \in Nat
    BY TimesAssumption DEF RestInv
  <2>. QED  BY <2>1, PenaltyLower
<1>. QED  BY <1>4, <1>5, <1>6, OwnParts

(* Lower topics and more penalties make a lower score.                     *)
LEMMA OwnLower ==
  ASSUME TopicInv, RestInv, TopicInv', RestInv', NEW q \in Peers,
         q \in peers' <=> q \in peers, params' = params, Lower(topics, topics', q),
         app'[q] = app[q], penalty[q] <= penalty'[q]
  PROVE  NotRaised(q)
<1>1. /\ topics[q] \in [Topics -> Stats] /\ params \in [Topics -> Params \cup {NoParams}]
      /\ topics'[q] \in [Topics -> Stats]
  BY DEF TopicInv, TopicsType, Table
<1>2. ASSUME NEW t \in Topics
      PROVE  /\ Term(topics[q], params, t) \in Int /\ Term(topics'[q], params, t) \in Int
             /\ Term(topics'[q], params, t) <= Term(topics[q], params, t)
  <2>1. Term(topics[q], params, t) \in Int /\ Term(topics'[q], params, t) \in Int
    BY <1>1, TermInt
  <2>2. Scored(t) => TopicScore(topics'[q][t], params[t]) <= TopicScore(topics[q][t], params[t])
    BY DEF Lower
  <2>. QED  BY <2>1, <2>2 DEF Term, Scored
<1>. DEFINE m == TopicsSum(topics'[q], params)
            n == TopicsSum(topics[q], params)
<1>3. m \in Int /\ n \in Int /\ m <= n
  BY <1>2, TopicsSumLower
<1>4. Capped(m) \in Int /\ Capped(n) \in Int /\ Capped(m) <= Capped(n)
  <2>. HIDE DEF m, n
  <2>. QED  BY <1>3, CappedLower
<1>5. /\ PenaltyScore(penalty[q]) \in Int /\ PenaltyScore(penalty'[q]) \in Int
      /\ PenaltyScore(penalty'[q]) <= PenaltyScore(penalty[q])
  <2>1. penalty[q] \in Nat /\ penalty'[q] \in Nat
    BY TimesAssumption DEF RestInv
  <2>. QED  BY <2>1, PenaltyLower
<1>. DEFINE k == app[q] * Global.appWeight
<1>6. k \in Int
  <2>1. app[q] \in Int /\ Global.appWeight \in Int
    BY ParamsAssumption DEF RestInv, IsGlobalParams
  <2>. QED  BY <2>1
<1>7. /\ OwnScore(q) = IF q \notin peers THEN 0
                       ELSE Capped(n) + k + PenaltyScore(penalty[q])
      /\ OwnScore(q)' = IF q \notin peers THEN 0
                        ELSE Capped(m) + k + PenaltyScore(penalty'[q])
  BY OwnParts
<1>. HIDE DEF m, n, k
<1>8. OwnScore(q)' <= OwnScore(q) /\ OwnScore(q)' \in Int /\ OwnScore(q) \in Int
  BY <1>4, <1>5, <1>6, <1>7
<1>. QED  BY <1>8 DEF NotRaised

(* Statistics that stay the same.                                          *)
LEMMA OwnSame ==
  ASSUME TopicInv, RestInv, TopicInv', RestInv', NEW q \in Peers,
         q \in peers' <=> q \in peers, params' = params, topics'[q] = topics[q],
         app'[q] = app[q], penalty'[q] = penalty[q]
  PROVE  NotRaised(q)
<1>1. ASSUME NEW t \in Topics, Scored(t)
      PROVE  TopicScore(topics'[q][t], params[t]) <= TopicScore(topics[q][t], params[t])
  <2>1. topics[q][t] \in Stats /\ params[t] \in Params
    BY <1>1, ScoredParams DEF TopicInv, TopicsType, Table
  <2>2. TopicScore(topics[q][t], params[t]) \in Int
    BY <2>1, ScoreParts
  <2>. QED  BY <2>2
<1>2. penalty[q] <= penalty'[q]
  BY TimesAssumption DEF RestInv
<1>3. Lower(topics, topics', q)
  BY <1>1 DEF Lower
<1>. QED  BY <1>2, <1>3, OwnLower

(* Initial statistics score nothing.                                       *)
LEMMA UnusedZero ==
  ASSUME TopicInv, RestInv, NEW q \in Peers, q \notin peers
  PROVE  Capped(TopicsSum(topics[q], params)) + app[q] * Global.appWeight
           + PenaltyScore(penalty[q]) = 0
<1>1. ASSUME NEW t \in Topics PROVE Term(topics[q], params, t) = 0
  <2>1. topics[q][t] = NewTopicStats
    BY DEF TopicInv, Unused
  <2>2. params[t] # NoParams => params[t] \in Params
    BY DEF TopicInv, TopicsType
  <2>. QED  BY <2>1, <2>2, NewScore DEF Term
<1>2. TopicsSum(topics[q], params) = 0
  BY <1>1, TopicsSumZero
<1>3. Capped(0) = 0 /\ PenaltyScore(0) = 0
  BY CappedLower, PenaltyLower
<1>4. app[q] = 0 /\ penalty[q] = 0
  BY DEF RestInv
<1>5. 0 * Global.appWeight = 0
  BY ParamsAssumption DEF IsGlobalParams
<1>6. 0 + 0 + 0 = 0
  OBVIOUS
<1>. QED  BY <1>2, <1>3, <1>4, <1>5, <1>6

(* Steps that leave the statistics alone, and may enter a peer.            *)
LEMMA OwnFrame ==
  ASSUME TopicInv, RestInv, TopicInv', RestInv', NEW q \in Peers,
         UNCHANGED <<topics, params, app, penalty>>, peers \subseteq peers'
  PROVE  NotRaised(q)
<1>1. CASE q \in peers \/ q \notin peers'
  BY <1>1, OwnSame
<1>2. CASE q \notin peers /\ q \in peers'
  <2>1. OwnScore(q) = 0
    BY <1>2, OwnParts
  <2>2. OwnScore(q)' = Capped(TopicsSum(topics[q], params))
                       + app[q] * Global.appWeight + PenaltyScore(penalty[q])
    BY <1>2, OwnParts
  <2>3. OwnScore(q)' = 0
    BY <1>2, <2>2, UnusedZero
  <2>. QED  BY <2>1, <2>3 DEF NotRaised
<1>. QED  BY <1>1, <1>2

-----------------------------------------------------------------------------
(* Steps and scores.                                                       *)

(* The state before and after a step, as the lemmas below need it.         *)
Sound == ConnInv /\ MsgInv /\ TopicInv /\ RestInv

(* A connection is closed: a peer with a good score loses it, one with a   *)
(* bad score keeps it and is charged.                                      *)
LEMMA OwnClosed ==
  ASSUME Sound, Sound', Sticky, NEW p \in Peers, NEW a \in Addresses,
         ConnectionClosed(p, a), NEW q \in Peers
  PROVE  NotRaised(q)
<1>0. TopicInv /\ RestInv /\ TopicInv' /\ RestInv' /\ params' = params /\ ConnInv
  BY DEF Sound, ConnectionClosed
<1>1. CASE \E b \in Addresses : open'[p][b] > 0
  <2>1. UNCHANGED <<topics, app, penalty>> /\ peers' = peers
    BY <1>1 DEF ConnectionClosed, ForgetConnection, statVars
  <2>. QED  BY <1>0, <2>1, OwnFrame
<1>2. CASE ~\E b \in Addresses : open'[p][b] > 0
  <2>. DEFINE known == KnownWithout(p, a)
              byIp  == PeerIpsWithout(p, a)
  <2>1. RemovePeer(p, known, byIp)
    BY <1>2 DEF ConnectionClosed, ForgetConnection
  <2>2. open[p][a] > 0 /\ open' = [open EXCEPT ![p][a] = @ - 1]
    BY DEF ConnectionClosed
  <2>3. /\ p \in peers /\ known[p] = ips[p] \ {a}
    BY <1>0, <2>2, WithoutIp
  <2>4. known[p] = {}
    <3>1. ASSUME NEW i \in ips[p], i # a PROVE FALSE
      <4>1. i \in Addresses
        BY <1>0 DEF ConnInv, ConnType, IPs
      <4>2. open[p][i] > 0
        BY <1>0 DEF ConnInv, NoGhostAddress
      <4>3. open'[p][i] = open[p][i]
        BY <1>0, <2>2, <3>1, <4>1 DEF ConnInv, ConnType
      <4>. QED  BY <1>2, <4>1, <4>2, <4>3
    <3>. QED  BY <2>3, <3>1
  <2>. HIDE DEF known, byIp
  <2>5. CASE OwnScore(p) + IpScore(known[p], byIp) > 0
    <3>1. /\ peers' = peers \ {p}
          /\ topics' = [topics EXCEPT ![p] = [t \in Topics |-> NewTopicStats]]
          /\ penalty' = [penalty EXCEPT ![p] = 0]
          /\ app' = [app EXCEPT ![p] = 0]
      BY <2>1, <2>5 DEF RemovePeer
    <3>2. CASE q # p
      <4>1. topics'[q] = topics[q] /\ penalty'[q] = penalty[q] /\ app'[q] = app[q]
        BY <1>0, <3>1, <3>2 DEF TopicInv, TopicsType, Table, RestInv
      <4>2. q \in peers' <=> q \in peers
        BY <3>1, <3>2
      <4>. QED  BY <1>0, <4>1, <4>2, OwnSame
    <3>3. CASE q = p
      <4>1. IpScore(known[p], byIp) = 0
        BY <2>4, NoAddressNoScore
      <4>2. OwnScore(p) \in Int
        BY <1>0, OwnInt
      <4>3. OwnScore(p) > 0
        BY <2>5, <4>1, <4>2
      <4>4. OwnScore(p)' = 0
        BY <3>1, OwnParts
      <4>. QED  BY <3>3, <4>2, <4>3, <4>4 DEF NotRaised
    <3>. QED  BY <3>2, <3>3
  <2>6. CASE ~(OwnScore(p) + IpScore(known[p], byIp) > 0)
    <3>1. /\ topics' = [topics EXCEPT ![p] =
                          [t \in Topics |-> Retired(topics[p][t], params[t])]]
          /\ peers' = peers /\ penalty' = penalty /\ app' = app
      BY <2>1, <2>3, <2>6 DEF RemovePeer
    <3>2. topics \in Table
      BY <1>0 DEF TopicInv, TopicsType
    <3>3. CASE q # p
      <4>1. topics'[q] = topics[q]
        BY <3>1, <3>2, <3>3 DEF Table
      <4>. QED  BY <1>0, <3>1, <4>1, OwnSame
    <3>4. CASE q = p
      <4>1. ASSUME NEW t \in Topics, Scored(t)
            PROVE  TopicScore(topics'[p][t], params[t]) <= TopicScore(topics[p][t], params[t])
        <5>1. topics'[p][t] = Retired(topics[p][t], params[t])
          BY <3>1, <3>2 DEF Table
        <5>2. topics[p][t] \in Stats /\ (topics[p][t].active => topics[p][t].inMesh)
          BY <1>0, <3>2 DEF Table, TopicInv, DeficitCharged
        <5>3. /\ params[t] \in Params /\ params[t] # NoParams /\ ValidTopic(params[t])
              /\ params[t].failureWeight <= params[t].meshWeight
          BY <1>0, <4>1, StickyTopic
        <5>. QED  BY <5>1, <5>2, <5>3, RetiredLower
      <4>2. Lower(topics, topics', p)
        BY <4>1 DEF Lower
      <4>3. penalty[p] <= penalty'[p]
        BY <1>0, <3>1, TimesAssumption DEF RestInv
      <4>. QED  BY <1>0, <3>1, <3>4, <4>2, <4>3, OwnLower
    <3>. QED  BY <3>3, <3>4
  <2>. QED  BY <2>5, <2>6
<1>. QED  BY <1>1, <1>2

(* A step that changes the statistics of one topic of one peer.            *)
LEMMA OwnUpdate ==
  ASSUME Sound, Sound', NEW p \in Peers, NEW t \in Topics, NEW e, Update(p, t, e),
         Scored(t) => TopicScore(e, params[t]) <= TopicScore(topics[p][t], params[t]),
         UNCHANGED <<peers, penalty, app, params>>, NEW q \in Peers
  PROVE  NotRaised(q)
<1>0. TopicInv /\ RestInv /\ TopicInv' /\ RestInv' /\ topics \in Table
  BY DEF Sound, TopicInv, TopicsType
<1>1. CASE topics' = topics
  BY <1>0, <1>1, OwnSame
<1>2. CASE Scored(t) /\ topics' = [topics EXCEPT ![p][t] = e]
  <2>1. \A u \in Topics : topics'[q][u] = IF q = p /\ u = t THEN e ELSE topics[q][u]
    BY <1>0, <1>2 DEF Table
  <2>2. ASSUME NEW u \in Topics, Scored(u)
        PROVE  TopicScore(topics'[q][u], params[u]) <= TopicScore(topics[q][u], params[u])
    <3>1. CASE q = p /\ u = t
      BY <1>2, <2>1, <3>1
    <3>2. CASE ~(q = p /\ u = t)
      <4>1. topics[q][u] \in Stats /\ params[u] \in Params
        BY <1>0, <2>2, ScoredParams DEF TopicInv, Table
      <4>2. TopicScore(topics[q][u], params[u]) \in Int
        BY <4>1, ScoreParts
      <4>. QED  BY <2>1, <3>2, <4>2
    <3>. QED  BY <3>1, <3>2
  <2>3. Lower(topics, topics', q)
    BY <2>2 DEF Lower
  <2>4. penalty[q] <= penalty'[q]
    BY <1>0, TimesAssumption DEF RestInv
  <2>. QED  BY <1>0, <2>3, <2>4, OwnLower
<1>. QED  BY <1>1, <1>2 DEF Update

(* GRAFT and PRUNE.                                                        *)
LEMMA OwnMesh ==
  ASSUME Sound, Sound', Sticky, NEW p \in Peers, NEW t \in Topics,
         Graft(p, t) \/ Prune(p, t), NEW q \in Peers
  PROVE  NotRaised(q)
<1>0. UNCHANGED <<peers, penalty, app, params>>
  BY DEF Graft, Prune
<1>1. /\ TopicInv /\ topics[p][t] \in Stats
      /\ topics[p][t].active => topics[p][t].inMesh
  BY DEF Sound, TopicInv, TopicsType, Table, DeficitCharged
<1>2. CASE Graft(p, t)
  <2>. DEFINE e == [topics[p][t] EXCEPT !.inMesh = TRUE, !.graft = 0,
                                        !.time = 0, !.active = FALSE]
  <2>1. Update(p, t, e)
    BY <1>2, Zenon DEF Graft
  <2>2. ~topics[p][t].inMesh
    BY <1>2, Zenon DEF Graft
  <2>3. ASSUME Scored(t) PROVE TopicScore(e, params[t]) <= TopicScore(topics[p][t], params[t])
    <3>1. params[t] \in Params /\ ValidTopic(params[t])
      BY <1>1, <2>3, StickyTopic
    <3>. QED  BY <1>1, <2>2, <3>1, GraftLower, Zenon
  <2>. HIDE DEF e
  <2>. QED  BY <1>0, <2>1, <2>3, OwnUpdate
<1>3. CASE Prune(p, t)
  <2>. DEFINE e == [topics[p][t] EXCEPT
                      !.failure = @ + Deficit(topics[p][t], params[t]),
                      !.inMesh = FALSE, !.graft = 0, !.time = 0, !.active = FALSE]
  <2>1. Update(p, t, e)
    BY <1>3, Zenon DEF Prune
  <2>3. ASSUME Scored(t) PROVE TopicScore(e, params[t]) <= TopicScore(topics[p][t], params[t])
    <3>1. /\ params[t] \in Params /\ ValidTopic(params[t])
          /\ params[t].failureWeight <= params[t].meshWeight
      BY <1>1, <2>3, StickyTopic
    <3>. QED  BY <1>1, <3>1, PruneLower, Zenon
  <2>. HIDE DEF e
  <2>. QED  BY <1>0, <2>1, <2>3, OwnUpdate
<1>. QED  BY <1>2, <1>3

(* Penalties for an invalid message lower scores.                          *)
LEMMA MarkedLower ==
  ASSUME TopicInv, Sticky, NEW f \in Table, NEW P, NEW t \in Topics, NEW q \in Peers
  PROVE  Lower(f, Marked(f, P, t, LAMBDA s, r : MarkInvalid(s)), q)
<1>. DEFINE g == Marked(f, P, t, LAMBDA s, r : MarkInvalid(s))
<1>1. g = [p \in Peers |-> IF p \in Reached(P, t)
                           THEN [f[p] EXCEPT ![t] = MarkInvalid(f[p][t])]
                           ELSE f[p]]
  BY DEF Marked
<1>. HIDE DEF g
<1>2. ASSUME NEW u \in Topics, Scored(u)
      PROVE  TopicScore(g[q][u], params[u]) <= TopicScore(f[q][u], params[u])
  <2>1. f[q][u] \in Stats /\ params[u] \in Params /\ ValidTopic(params[u])
    BY <1>2, StickyTopic DEF Table
  <2>2. g[q][u] = f[q][u] \/ g[q][u] = MarkInvalid(f[q][u])
    BY <1>1 DEF Table
  <2>3. TopicScore(f[q][u], params[u]) \in Int
    BY <2>1, ScoreParts
  <2>4. TopicScore(MarkInvalid(f[q][u]), params[u]) <= TopicScore(f[q][u], params[u])
    BY <2>1, InvalidLower
  <2>. QED  BY <2>2, <2>3, <2>4
<1>3. Lower(f, g, q)
  BY <1>2 DEF Lower
<1>. QED  BY <1>3 DEF g

(* A message is rejected or ignored.                                       *)
LEMMA OwnReject ==
  ASSUME Sound, Sound', Sticky, NEW p \in Peers, NEW m \in Msgs,
         NEW verdict \in {"Invalid", "Ignored"}, Reject(p, m, verdict), NEW q \in Peers
  PROVE  NotRaised(q)
<1>. DEFINE t == TopicOf[m]
<1>0. /\ TopicInv /\ RestInv /\ TopicInv' /\ RestInv' /\ topics \in Table /\ topics' \in Table
      /\ t \in Topics
  BY ParamsAssumption DEF Sound, TopicInv, TopicsType
<1>1. PICK guilty, twice :
        topics' = Marked(Marked(topics, guilty, t, LAMBDA s, r : MarkInvalid(s)),
                         twice, t, LAMBDA s, r : MarkInvalid(s))
  BY DEF Reject
<1>2. UNCHANGED <<peers, penalty, app, params>>
  BY DEF Reject
<1>. DEFINE first == Marked(topics, guilty, t, LAMBDA s, r : MarkInvalid(s))
<1>. HIDE DEF t
<1>3. Lower(topics, first, q) /\ first \in Table
  <2>1. Touched(topics, first, guilty, t)
    BY <1>0, MarkedInvalid
  <2>. QED  BY <1>0, <2>1, MarkedLower DEF Touched
<1>4. topics' = Marked(first, twice, t, LAMBDA s, r : MarkInvalid(s))
  BY <1>1
<1>. HIDE DEF first
<1>5. Lower(first, topics', q)
  BY <1>0, <1>3, <1>4, MarkedLower
<1>6. ASSUME NEW u \in Topics, Scored(u)
      PROVE  TopicScore(topics'[q][u], params[u]) <= TopicScore(topics[q][u], params[u])
  <2>0. params[u] \in Params
    BY <1>0, <1>6, ScoredParams DEF TopicInv
  <2>1. /\ TopicScore(topics'[q][u], params[u]) \in Int
        /\ TopicScore(first[q][u], params[u]) \in Int
        /\ TopicScore(topics[q][u], params[u]) \in Int
    <3>1. topics'[q][u] \in Stats /\ first[q][u] \in Stats /\ topics[q][u] \in Stats
      BY <1>0, <1>3 DEF Table
    <3>. QED  BY <2>0, <3>1, ScoreParts
  <2>2. /\ TopicScore(topics'[q][u], params[u]) <= TopicScore(first[q][u], params[u])
        /\ TopicScore(first[q][u], params[u]) <= TopicScore(topics[q][u], params[u])
    BY <1>3, <1>5, <1>6 DEF Lower
  <2>. QED  BY <2>1, <2>2
<1>7. Lower(topics, topics', q)
  BY <1>6 DEF Lower
<1>8. penalty[q] <= penalty'[q]
  BY <1>0, <1>2, TimesAssumption DEF RestInv
<1>. QED  BY <1>0, <1>2, <1>7, <1>8, OwnLower

(* A message cannot be valid.                                              *)
LEMMA OwnRejectInvalid ==
  ASSUME Sound, Sound', Sticky, NEW p \in Peers, NEW t \in Topics, RejectInvalid(p, t),
         NEW q \in Peers
  PROVE  NotRaised(q)
<1>0. TopicInv /\ RestInv /\ TopicInv' /\ RestInv' /\ topics \in Table
  BY DEF Sound, TopicInv, TopicsType
<1>1. topics' = Marked(topics, {p}, t, LAMBDA s, r : MarkInvalid(s))
  BY DEF RejectInvalid
<1>2. UNCHANGED <<peers, penalty, app, params>>
  BY DEF RejectInvalid
<1>3. Lower(topics, topics', q)
  BY <1>0, <1>1, MarkedLower
<1>4. penalty[q] <= penalty'[q]
  BY <1>0, <1>2, TimesAssumption DEF RestInv
<1>. QED  BY <1>0, <1>2, <1>3, <1>4, OwnLower

(* A duplicate raises no score but its sender's.                           *)
LEMMA OwnDuplicated ==
  ASSUME Sound, Sound', NEW p \in Peers, NEW m \in Msgs, Duplicated(p, m),
         NEW q \in Peers, q # p
  PROVE  NotRaised(q)
<1>. DEFINE t    == TopicOf[m]
            new  == p \notin Record(m).peers
            good == {k \in {p} : new /\ InWindow(m)}
            bad  == {k \in {p} : new /\ Record(m).status = "Invalid"}
            first == Marked(topics, good, t, MarkDuplicate)
<1>0. /\ TopicInv /\ RestInv /\ TopicInv' /\ RestInv' /\ TopicsType /\ topics \in Table
      /\ t \in Topics
  BY ParamsAssumption DEF Sound, TopicInv, TopicsType
<1>1. /\ topics' = Marked(first, bad, t, LAMBDA s, r : MarkInvalid(s))
      /\ UNCHANGED <<peers, penalty, app, params>>
  BY DEF Duplicated
<1>2. q \notin good /\ q \notin bad
  OBVIOUS
<1>. HIDE DEF good, bad, t
<1>3. Touched(topics, first, good, t)
  BY <1>0, MarkedDuplicate
<1>4. first \in Table
  BY <1>3 DEF Touched
<1>. HIDE DEF first
<1>5. Touched(first, topics', bad, t)
  BY <1>0, <1>1, <1>4, MarkedInvalid
<1>6. topics'[q] = topics[q]
  BY <1>2, <1>3, <1>5 DEF Touched
<1>. QED  BY <1>0, <1>1, <1>6, OwnSame

(* An acceptance raises no score but its sender's and those of the senders *)
(* that the record names.                                                  *)
LEMMA OwnAccept ==
  ASSUME Sound, Sound', NEW p \in Peers, NEW m \in Msgs, Accept(p, m),
         NEW q \in Peers, q # p, q \notin deliveries[m].peers
  PROVE  NotRaised(q)
<1>. DEFINE t     == TopicOf[m]
            late  == IF Record(m).status = "Unknown" THEN Record(m).peers \ {p} ELSE {}
            first == Marked(topics, {p}, t, MarkFirst)
<1>0. /\ TopicInv /\ RestInv /\ TopicInv' /\ RestInv' /\ TopicsType /\ topics \in Table
      /\ t \in Topics /\ MsgType
  BY ParamsAssumption DEF Sound, TopicInv, TopicsType, MsgInv
<1>1. /\ topics' = Marked(first, late, t, MarkDuplicate)
      /\ UNCHANGED <<peers, penalty, app, params>>
  BY DEF Accept
<1>2. q \notin late
  <2>1. q \notin Record(m).peers
    BY <1>0, RecordFound, RecordConstants
  <2>. QED  BY <2>1
<1>. HIDE DEF late, t
<1>3. Touched(topics, first, {p}, t)
  BY <1>0, MarkedFirst
<1>4. first \in Table
  BY <1>3 DEF Touched
<1>. HIDE DEF first
<1>5. Touched(first, topics', late, t)
  BY <1>0, <1>1, <1>4, MarkedDuplicate
<1>6. topics'[q] = topics[q]
  BY <1>2, <1>3, <1>5 DEF Touched
<1>. QED  BY <1>0, <1>1, <1>6, OwnSame

(* Penalties and the application's scores.                                 *)
LEMMA OwnApplication ==
  ASSUME Sound, Sound', NEW p \in Peers, NEW q \in Peers,
         \/ AddPenalty(p)
         \/ \E n \in AppScores : SetApplicationScore(p, n) /\ q # p
  PROVE  NotRaised(q)
<1>0. TopicInv /\ RestInv /\ TopicInv' /\ RestInv'
  BY DEF Sound
<1>1. CASE AddPenalty(p)
  <2>1. /\ UNCHANGED <<peers, topics, app, params>>
        /\ penalty' = [penalty EXCEPT ![p] = @ + 1]
    BY <1>1 DEF AddPenalty
  <2>2. penalty[q] <= penalty'[q]
    BY <1>0, <2>1, TimesAssumption DEF RestInv
  <2>3. Lower(topics, topics', q)
    <3>1. ASSUME NEW t \in Topics, Scored(t)
          PROVE  TopicScore(topics[q][t], params[t]) \in Int
      <4>1. topics[q][t] \in Stats /\ params[t] \in Params
        BY <1>0, <3>1, ScoredParams DEF TopicInv, TopicsType, Table
      <4>. QED  BY <4>1, ScoreParts
    <3>. QED  BY <2>1, <3>1 DEF Lower
  <2>. QED  BY <1>0, <2>1, <2>2, <2>3, OwnLower
<1>2. ASSUME NEW n \in AppScores, SetApplicationScore(p, n), q # p PROVE NotRaised(q)
  <2>1. /\ UNCHANGED <<peers, topics, penalty, params>>
        /\ app' = [app EXCEPT ![p] = n]
    BY <1>2 DEF SetApplicationScore
  <2>2. app'[q] = app[q]
    BY <1>0, <1>2, <2>1 DEF RestInv
  <2>. QED  BY <1>0, <2>1, <2>2, OwnSame
<1>. QED  BY <1>1, <1>2

(* A refresh leaves the peers alone that are gone and not expired.         *)
LEMMA OwnRefresh ==
  ASSUME Sound, Sound', Refresh, NEW q \in Peers, gone[q] # 0, q \notin Expired
  PROVE  NotRaised(q)
<1>0. TopicInv /\ RestInv /\ TopicInv' /\ RestInv' /\ topics \in Table
  BY DEF Sound, TopicInv, TopicsType
<1>1. /\ peers' = peers \ Expired /\ params' = params
      /\ topics' = [p \in Peers |-> [t \in Topics |->
           IF p \in Expired THEN NewTopicStats
           ELSE IF p \in peers /\ gone[p] = 0
                THEN Refreshed(topics[p][t], params[t]) ELSE topics[p][t]]]
      /\ penalty' = [p \in Peers |-> IF p \in Expired THEN 0
                      ELSE IF p \in peers /\ gone[p] = 0
                           THEN Decay(penalty[p], Global.penaltyDecay) ELSE penalty[p]]
      /\ app' = [p \in Peers |-> IF p \in Expired THEN 0 ELSE app[p]]
  BY DEF Refresh
<1>. HIDE DEF Expired
<1>2. penalty'[q] = penalty[q] /\ app'[q] = app[q] /\ (q \in peers' <=> q \in peers)
  BY <1>1
<1>3. topics'[q] = [t \in Topics |-> topics[q][t]]
  BY <1>1
<1>4. topics'[q] = topics[q]
  BY <1>0, <1>3 DEF Table
<1>. QED  BY <1>0, <1>1, <1>2, <1>4, OwnSame

(* Time passes: only the time since the GRAFT grows, and no score looks at *)
(* it before the next refresh.                                             *)
LEMMA OwnTick ==
  ASSUME Sound, Sound', Sticky, Tick, NEW q \in Peers
  PROVE  NotRaised(q)
<1>. DEFINE Ticked(s) == [s EXCEPT !.graft = IF s.inMesh THEN AtMost(@ + 1, MaxAge) ELSE @]
<1>0. TopicInv /\ RestInv /\ TopicInv' /\ RestInv' /\ topics \in Table
  BY DEF Sound, TopicInv, TopicsType
<1>1. /\ UNCHANGED <<peers, penalty, app, params>>
      /\ topics' = [p \in Peers |-> [t \in Topics |-> Ticked(topics[p][t])]]
  BY Zenon DEF Tick
<1>2. ASSUME NEW s \in Stats, NEW r \in Params, ValidTopic(r)
      PROVE  TopicScore(Ticked(s), r) <= TopicScore(s, r)
  BY <1>2, TickLower, Zenon
<1>. HIDE DEF Ticked
<1>3. ASSUME NEW t \in Topics, Scored(t)
      PROVE  TopicScore(topics'[q][t], params[t]) <= TopicScore(topics[q][t], params[t])
  <2>1. topics[q][t] \in Stats /\ params[t] \in Params /\ ValidTopic(params[t])
    BY <1>0, <1>3, StickyTopic DEF Table
  <2>2. topics'[q][t] = Ticked(topics[q][t])
    BY <1>1
  <2>. QED  BY <1>2, <2>1, <2>2
<1>4. Lower(topics, topics', q)
  BY <1>3 DEF Lower
<1>5. penalty[q] <= penalty'[q]
  BY <1>0, <1>1, TimesAssumption DEF RestInv
<1>. QED  BY <1>0, <1>1, <1>4, <1>5, OwnLower

(* What may raise the score of q.                                          *)
Earned(q) ==
  \/ \E m \in Msgs : Accept(q, m) \/ Duplicated(q, m)
  \/ \E m \in Msgs, p \in Peers : Accept(p, m) /\ q \in deliveries[m].peers
  \/ \E n \in AppScores : SetApplicationScore(q, n)
  \/ \E t \in Topics, r \in ParamChoices : SetTopicParams(t, r)
  \/ Refresh /\ (gone[q] = 0 \/ q \in Expired)

(* Every step that raises a score has earned it.                           *)
LEMMA OwnStep ==
  ASSUME Sound, Sound', Sticky, [Next]_vars, NEW q \in Peers
  PROVE  NotRaised(q) \/ Earned(q)
<1>0. TopicInv /\ RestInv /\ TopicInv' /\ RestInv'
  BY DEF Sound
<1>1. ASSUME NEW p \in Peers, ConnectionStep(p) PROVE NotRaised(q)
  <2>1. ASSUME NEW a \in Addresses, ConnectionEstablished(p, a) PROVE NotRaised(q)
    <3>1. UNCHANGED <<topics, params, app, penalty>> /\ peers \subseteq peers'
      BY <2>1 DEF ConnectionEstablished, MarkConnected
    <3>. QED  BY <1>0, <3>1, OwnFrame
  <2>2. ASSUME NEW a \in Addresses, NEW b \in Addresses, AddressChange(p, a, b)
        PROVE  NotRaised(q)
    <3>1. UNCHANGED <<topics, params, app, penalty>> /\ peers \subseteq peers'
      BY <2>2 DEF AddressChange, MarkConnected
    <3>. QED  BY <1>0, <3>1, OwnFrame
  <2>. QED  BY <1>1, <2>1, <2>2, OwnClosed DEF ConnectionStep
<1>2. ASSUME NEW p \in Peers, MeshStep(p) PROVE NotRaised(q)
  BY <1>2, OwnMesh DEF MeshStep
<1>3. ASSUME NEW p \in Peers, MessageStep(p) PROVE NotRaised(q) \/ Earned(q)
  <2>1. ASSUME NEW m \in Msgs, Received(p, m) PROVE NotRaised(q)
    <3>1. UNCHANGED <<topics, params, app, penalty>> /\ peers' = peers
      BY <2>1 DEF Received, statVars
    <3>. QED  BY <1>0, <3>1, OwnFrame
  <2>2. ASSUME NEW m \in Msgs, Duplicated(p, m) PROVE NotRaised(q) \/ Earned(q)
    BY <2>2, OwnDuplicated DEF Earned
  <2>3. ASSUME NEW m \in Msgs, Accept(p, m) PROVE NotRaised(q) \/ Earned(q)
    BY <2>3, OwnAccept DEF Earned
  <2>. QED  BY <1>3, <2>1, <2>2, <2>3, OwnReject, OwnRejectInvalid DEF MessageStep
<1>4. ASSUME NEW p \in Peers, ApplicationStep(p) PROVE NotRaised(q) \/ Earned(q)
  <2>1. CASE AddPenalty(p)
    BY <2>1, OwnApplication
  <2>2. ASSUME NEW n \in AppScores, SetApplicationScore(p, n)
        PROVE  NotRaised(q) \/ Earned(q)
    BY <2>2, OwnApplication DEF Earned
  <2>. QED  BY <1>4, <2>1, <2>2 DEF ApplicationStep
<1>5. ASSUME NEW t \in Topics, NEW r \in ParamChoices, SetTopicParams(t, r)
      PROVE  Earned(q)
  BY <1>5 DEF Earned
<1>6. CASE Refresh
  BY <1>6, OwnRefresh DEF Earned
<1>7. CASE UNCHANGED vars
  <2>1. UNCHANGED <<topics, params, app, penalty>> /\ peers' = peers
    BY <1>7 DEF vars, statVars
  <2>. QED  BY <1>0, <2>1, OwnFrame
<1>. QED  BY <1>1, <1>2, <1>3, <1>4, <1>5, <1>6, <1>7, OwnTick DEF Next

(* No peer improves its own score by connecting, disconnecting, changing   *)
(* its address, joining or leaving a mesh or waiting: it rises by          *)
(* deliveries, by the application's calls, and by the refreshes while the  *)
(* peer is connected or once its retention period is over.                 *)
THEOREM LeavingNeverPays == Spec => NoWhitewash
<1>. DEFINE A == \A p \in Peers :
                   Sticky /\ OwnScore(p)' > OwnScore(p) =>
                     \/ \E m \in Msgs : Accept(p, m) \/ Duplicated(p, m)
                     \/ \E m \in Msgs, q \in Peers : Accept(q, m) /\ p \in deliveries[m].peers
                     \/ \E n \in AppScores : SetApplicationScore(p, n)
                     \/ \E t \in Topics, r \in ParamChoices : SetTopicParams(t, r)
                     \/ Refresh /\ (gone[p] = 0 \/ p \in Expired)
<1>1. Sound /\ Sound' /\ [Next]_vars => A
  <2>. SUFFICES ASSUME Sound, Sound', [Next]_vars, NEW p \in Peers, Sticky,
                       OwnScore(p)' > OwnScore(p)
                PROVE  Earned(p)
    BY DEF Earned
  <2>. QED  BY OwnStep DEF NotRaised
<1>2. Init => RestInv
  BY RetainNat, TimesAssumption DEF Init, RestInv
<1>3. Init => Sound
  BY <1>2, ConnInit, MsgInit, TopicInit DEF Sound
<1>4. Sound /\ [Next]_vars => Sound'
  BY ConnStep, MsgStep, TopicStep, RestStep DEF Sound
<1>5. Sound /\ Sound' /\ [Next]_vars => [A]_vars
  BY <1>1
<1>. HIDE DEF A
<1>6. Spec => [][A]_vars
  BY <1>3, <1>4, <1>5, PTL DEF Spec
<1>. QED  BY <1>6 DEF A, NoWhitewash
=============================================================================
