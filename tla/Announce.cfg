\* Two topics whose subscriptions just exceed one RPC, two connections, and a
\* remote peer with three kinds of filters.
CONSTANTS
  t1 = t1
  t2 = t2
  Topics = {t1, t2}
  Conns = {c1, c2}
  SizeOf <- Sizes
  Filters <- RemoteFilters
  MaxTransmit = 100
  MaxQueue = 2
SYMMETRY Symmetry
SPECIFICATION Spec
INVARIANTS ViewsAgree ViewWithinFilter RpcsFit
