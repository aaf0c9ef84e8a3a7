SPECIFICATION EmbeddingSpec
CONSTANTS
  Texts = {text1, text2}
  Embedders = {em1, em2}
  FetchLimit = 1
  MaxEmbedRetries = 1
CHECK_DEADLOCK FALSE
INVARIANTS NoTaskIsPickedUpTwice
