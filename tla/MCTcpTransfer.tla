--------------------------- MODULE MCTcpTransfer ----------------------------
EXTENDS TcpTransfer

BothModes == {"tcp", "tcp4"}
=============================================================================
