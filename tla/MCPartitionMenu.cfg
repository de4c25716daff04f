\* Every key sequence on cards of 0 to 300 MB; the menu returns, so a final
\* state is not a deadlock.
CONSTANTS
    CardBytes <- MCCardBytes
SPECIFICATION Spec
CHECK_DEADLOCK FALSE
INVARIANT TypeOK
INVARIANT LayoutFits
INVARIANT RepartitionFits
