SPECIFICATION Spec
CONSTANT
    MaxThumbnailBytes <- ThreeBytes
CHECK_DEADLOCK FALSE
INVARIANT ReadsAllBytes
