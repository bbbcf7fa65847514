SPECIFICATION Spec
CONSTANTS
    MaxLines = 7
    Allowed = {ca, tls}
    CA = ca
    ca = ca
    tls = tls
    key = key
    Names = {ca, tls, key}
    Spellings = {lower, upper}
    Lower = lower
    lower = lower
    upper = upper
    Masked = {ca}
    NoBlock = NoBlock
    Authorities = {root, stranger}
    Issuer <- MCIssuer
    Others = {"remote", "refused"}
    root = root
    stranger = stranger
INVARIANT TypeOK
INVARIANT ScannersAgree
INVARIANT ReaderAgrees
INVARIANT RenderedIsChecked
CHECK_DEADLOCK FALSE
