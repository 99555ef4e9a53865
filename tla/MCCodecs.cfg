SPECIFICATION Spec
CONSTANTS
  Null = Null
  BerDecode <- ber_decoder
  BerEncode <- der_encoder
  UperDecode <- uper_decoder
  UperEncode <- uper_encoder
  XerDecode <- xer_decoder
  XerEncode <- xer_encoder
  NumDecode <- num_decoder
  NumEncode <- num_encoder
INVARIANTS BerWhole PerWhole XerWhole
CHECK_DEADLOCK FALSE
