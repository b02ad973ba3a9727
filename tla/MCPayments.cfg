CONSTANTS
    MaxConnects <- MCMaxConnects
    NPages <- MCNPages
SPECIFICATION Spec
INVARIANT TypeOK
INVARIANT TokenContinuesPage
PROPERTY PageAdvances
