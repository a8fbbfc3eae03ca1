SPECIFICATION Spec
CONSTANTS
  r1 = r1
  r2 = r2
  a1 = a1
  a2 = a2
  u1 = u1
  k1 = k1
  None = None
  Error = Error
  Reaper = reaper
  Dispatcher = dispatcher
  Background = {reaper, dispatcher}
  Requests = {r1, r2}
  Assets = {a1, a2}
  Recipients = {u1}
  RecipientOf <- OneRecipient
  Amount <- Ones
  Delisted = {}
  Held = {}
  Keys = {k1}
  Threshold = 0
  MaxClaims = 2
PROPERTY InitiateAnswersTheAssetAsked
