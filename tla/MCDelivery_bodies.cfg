SPECIFICATION Spec
CONSTANTS
    Kinds = {"youtube", "audio", "link", "x", "pinterest", "tiktok", "instagram", "reddit", "translate"}
    MaxFaults = 2
    MaxFiles = 3
    Sizes = {1, 2, 3}
    PlatformLimit = 2
    UploadLimit = 1
    DocumentLimit = 2
    MaxItems = 2
    AlbumChunk = 2
    MaxText = 5
    MaxChunk = 2
INVARIANTS
    ShownInOrder
    CompletedDropsNothing
    AnsweredAtEnd
    VideoNeverLost
    TranslationComplete
PROPERTIES
    KeepsPromise
    JobEnds
