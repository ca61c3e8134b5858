SPECIFICATION DfuseSpec
CONSTANTS
    Origin = 4
    PageBanks <- MCPageBanks
    TransferSize = 2
    Files <- MCFiles
    ImageSizes <- MCImageSizes
    PageSize = 2
    RetryCount = 2
INVARIANTS SuccessMeansWritten NothingElseTouched FaultlessSucceeds
