SPECIFICATION MCSpec
CONSTANTS
    FuncOrder <- ThreeIds
    Exprs <- AllExprs
    BlockSize = 5
    LengthSize = 2
    ResultSize = 2
    MaxMessage = 12
    CipherBlock = 2
    ByteValues = 4
    IV <- MCIV
    EncryptBlock <- MCEncryptBlock
    DecryptBlock <- MCDecryptBlock
    CipherXor <- MCCipherXor
    MaxPlain = 4
    WordSize = 2
    BitsPerByte = 3
    Items <- MCItems
    MaxItems = 2
    FileNames <- MCFileNames
    Contents <- MCContents
    MediaTypes <- MCMediaTypes
    MaxFiles = 2
    Indices = {"i", "j", "k"}
    Values = {"u", "v"}
    MaxUid = 4
    ArgWords <- MCArgWords
    MaxArgs = 3
    UriTexts <- MCUriTexts
    Schemes <- MCSchemes
    Users <- MCUsers
    Hosts <- MCHosts
    Ports = {0, 15}
    Paths <- MCPaths
    Queries <- MCQueries
    UriLetters <- MCUriLetters
    PortLimit = 16
    IntLimit = 50
    MaxUriEdits = 3
    Sockets = {s1, s2}
    Here <- MCHere
    LocalPorts = {8}
    Ephemeral = 9
    Peers <- MCPeers
    Payloads <- MCPayloads
    MaxDatagrams = 2
    MaxWaiting = 1
    Widths = {0, 1, 4}
    Heights = {0, 1, 2}
    RowAligns = {1, 2}
    Regions <- MCRegions
    Stamps <- MCStamps
    Requests <- MCRequests
    HttpSent <- MCHttpSent
    HttpForeign <- MCForeign
    TypedKeys <- MCTypedKeys
    TypedValues <- MCTypedValues
    IntRange = 16
    LongRange = 64
    YamlTrees <- MCYamlTrees
    YamlPaths <- MCYamlPaths
    YamlScalars <- MCYamlScalars
    MaxYamlEdits = 2
INVARIANT TreesSurvive
PROPERTY RewritingKeepsMeaning
PROPERTY RewritingReduces
INVARIANT DigestsAreStandard
INVARIANT CiphersAreInverse
INVARIANT BytesAreFound
INVARIANT PackingIsLossless
INVARIANT MapsAgree
PROPERTY KeepsAliases
INVARIANT CommandLinesAreRead
INVARIANT UrisAreConsistent
PROPERTY SocketsExchangeDatagrams
INVARIANT PicturesAreExact
INVARIANT SymbolsAreStandard
INVARIANT MessagesArriveWhole
INVARIANT SettingsKeepTheirTypes
PROPERTY YamlWritesAreLocal
SYMMETRY SocketsAlike
CHECK_DEADLOCK FALSE
