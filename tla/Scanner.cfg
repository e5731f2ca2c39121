CONSTANTS
    ean = ean
    qr = qr
    odd = odd
    Nothing = Nothing
    Codes <- MCCodes
    Printed <- MCPrinted
    Fitting <- MCFitting
    Devices <- MCDevices
SPECIFICATION ScannerSpec
CHECK_DEADLOCK FALSE
INVARIANT CameraHasOwner
INVARIANT CodeIsSure
