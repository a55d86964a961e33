SPECIFICATION MCSpec
CONSTANTS
    Pointers <- MCPointers
    Scalars <- MCScalars
    Texts <- MCTexts
    MaxInt = 110
    SizeMax = 99
    MaxLength = 20
    MaxSize = 3
    MaxText = 24
    Sections <- MCSections
    Keys <- MCKeys
    Values <- MCValues
    IniTexts <- MCIniTexts
    MaxKeys = 2
    YamlLines <- MCYamlLines
    MaxLines = 3
    YamlDocs <- MCYamlDocs
    XmlTexts <- MCXmlTexts
    XmlNames <- MCXmlNames
    XmlValues <- MCXmlValues
    XmlUris <- MCXmlUris
    TextWidth = 2
    MaxNodes = 3
    MaxEdits = 2
    HtmlTexts <- MCHtmlTexts
    HtmlContents <- MCHtmlContents
    MaxHtmlEdits = 3
INVARIANT TextsAreJson
PROPERTY SetIsLocal
INVARIANT FilesHaveOneMeaning
PROPERTY SettingsComeBack
INVARIANT YamlKeepsItsMeaning
INVARIANT DocumentsSurvive
PROPERTY ReadingForgets
CHECK_DEADLOCK FALSE
