SPECIFICATION ValidateSpec
CONSTANTS
    Operations <- MCOperations
    GRAPHENE_MAX_SHARE_SUPPLY = 1000
    GRAPHENE_100_PERCENT = 10000
    GRAPHENE_MAX_URL_LENGTH = 127
    SymbolChars = {"B", "I", "T", "a", "0", ".", "-"}
    MIN_SYMBOL_LENGTH = 3
    MAX_SYMBOL_LENGTH = 4
CHECK_DEADLOCK FALSE
INVARIANTS
    CreatedRateIsCoreToNewAsset
    UpdatedRateIsAssetToCore
    FeedPricesTheAsset
    VerdictIsReference
