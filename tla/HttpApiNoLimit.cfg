SPECIFICATION Spec
CONSTANTS
    Layers <- NoLimitLayers
    Embedded <- MCEmbedded
    SafeNames <- MCSafeNames
    FileNames <- MCFileNames
    Overlays <- MCOverlays
    DefaultKeyLength = 2
    DefaultMaxLength = 3
    Day = 4
    Vowels <- MCVowels
    Consonants <- MCConsonants
    Capitals <- MCCapitals
    Clients <- MCClients
    Proxies <- TwoProxies
    OwnLine <- FirstOwn
    Writes <- MCWrites
    Framing = 1
    Slack = 2
    AdminPath <- MCAdminPath
    AssetDirs <- MCAssetDirs
    AssetFiles <- MCAssetFiles
    Extensions <- MCExtensions
    Budget = 3
    MaxPastes = 1
INVARIANT UnlimitedIsWhole
CHECK_DEADLOCK FALSE
