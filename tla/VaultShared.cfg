\* A copy is removed while another upload of its content is being created.
SPECIFICATION VaultSpec
CONSTANTS
    Uploads = {u1,u2}
    Rescued = {}
    Cloud = {u1}
    ContentOf <- MCContent
    Size = 1
    Damage = 0
    MaxRoadEdits = 0
    MaxRemovals = 1
    MaxVaultCrashes = 0
    MaxDownloads = 0
INVARIANTS SharedBlobsRemain
CHECK_DEADLOCK FALSE
