SPECIFICATION Spec
CONSTANTS
    c1 = c1  c2 = c2  nopage = nopage  images = images  Root = Root  Index = Index
    Text = Text  Blank = Blank  NoConn = NoConn
    Conns <- TwoConns
    Paths <- MCPaths
    Names <- MCNames
    File <- MCFile
    Outcome <- Handler
    Backlog = 2
    MaxLines = 2
INVARIANT OwnPage
PROPERTY EveryoneServed
