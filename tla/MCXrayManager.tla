--------------------------- MODULE MCXrayManager ---------------------------
\* Small instances of XrayManager.
EXTENDS XrayManager

NoFault == {{}}

\* Behaviours without a fault, and behaviours that may meet every one.
NoneOrAll == {{}, AllFaults}

=============================================================================
