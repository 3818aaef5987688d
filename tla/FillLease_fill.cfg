CONSTANTS
    c1 = c1
    c2 = c2
    c3 = c3
    m1 = m1
    m2 = m2
    Calls <- MCCalls
    Members <- MCMembers
    MemberOf <- MCMemberOf
    NoMember = NoMember
    WaiterMax = 1
SPECIFICATION FairSpec
INVARIANTS
    OneMemberFills
PROPERTIES
    KeepsPromise
    CallsReturn
