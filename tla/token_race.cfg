\* A slot and a size that cannot be taken for each other. The process dies
\* when a token is missing.
SPECIFICATION Spec
CONSTANTS
  Slots = {5}
  Sizes = {7}
  Rates = 3
INVARIANT
  TokensAreFields
CHECK_DEADLOCK FALSE
