SPECIFICATION AlgorithmsSpec
CONSTANTS
    Payloads <- MCPayloads
    Followed = {1, 2, 6, 7, 10}
    Width <- MCWidth
    Files <- MCFiles
    VersionTexts <- MCVersionTexts
INVARIANTS Scannable AnswersRight
CHECK_DEADLOCK FALSE
