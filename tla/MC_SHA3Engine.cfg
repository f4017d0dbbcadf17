CONSTANTS
  Builds <- MCBuilds
  Sizes = {224, 256, 384, 512}
  Msg <- MCMsg
  Chunks <- MCChunks
SPECIFICATION Spec
INVARIANT TypeOK
INVARIANT DigestIsSHA3
