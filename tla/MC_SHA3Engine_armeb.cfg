CONSTANTS
  Builds <- BigEndianArm
  Sizes = {224, 256, 384, 512}
  Msg <- MCMsg
  Chunks <- MCChunks
SPECIFICATION Spec
INVARIANT DigestIsSHA3
