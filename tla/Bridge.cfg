\* The code's three logins and two posts, with certificate reloads.
CONSTANTS
    MaxLogins = 3
    MaxPosts = 2
    MaxMessages = 4
    CertReloads = TRUE
SPECIFICATION FairSpec
INVARIANTS
    Accounted
    AtMostOnce
    PostsWithToken
PROPERTIES
    MessageEnds
    BrokenLinkComesBack
