SPECIFICATION FairSpec
CONSTANTS
  s1 = s1
  Subs = {s1}
  Keys = {k1, k2}
  SubOf <- MCSubOf
  Runners = {w1, w2}
  Admins = {a1, a2}
  NoKey = NoKey
  NAttempts = 2
  MaxCrashes = 1
  MaxOps = 2
INVARIANTS OneActiveCampaign RetriesPerAttempt EndingIsEarned AuditExplainsStatus
PROPERTIES NoChargeWhilePaused CampaignIsDecided EndIsFinal
