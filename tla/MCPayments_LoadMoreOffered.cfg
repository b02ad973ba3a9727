CONSTANTS
    MaxConnects <- MCMaxConnects
    NPages <- MCNPages
SPECIFICATION Spec
INVARIANT LoadMoreOffered
