SPECIFICATION ChannelsSpec
CONSTANTS
  s1 = s1  s2 = s2  m1 = m1  c1 = c1  c2 = c2
  i1 = i1  i2 = i2  k1 = k1  k2 = k2
  Sessions = {s1, s2}
  None = None
  Msgs = {m1}
  Convs = {c1, c2}
  Patches <- MCPatches
  Statuses = {"delivered", "read"}
  MaxCrashes = 1
  Conns = {i1, i2}
  Keys = {k1, k2}
  Providers = {"whatsapp_cloud_api", "google_calendar", "google_sheets", "midtrans"}
  OperationOf <- MCOperationOf
  MaxGrants = 2
  Events = {e1, e2, e3}
  Workers = {s1, s2}
  handlers = 2
  count = 2
SYMMETRY ChannelsSymmetry
INVARIANTS ChannelsTypeOK AnsweredOnce NoReplyAfterTakeover KeyedOnce DisconnectedIsRevoked
           HandledOnce AcknowledgedMeansHandled
PROPERTY DeliveryMovesForward
